---------------------------- MODULE Spec2Model ----------------------------
(***************************************************************************)
(* A model of the Connect-Four server: the board engine (game/logic),      *)
(* the session manager (game.Manager), the bot player, the matchmaking     *)
(* queue and the protocol coordinator (main.Server).                       *)
(*                                                                         *)
(* Specifications:                                                         *)
(*   Spec       the server, every handler and timer callback one action    *)
(*   SpecPlay   the server while no connection closes and no time passes   *)
(*   SpecRace   one session, a move and a forfeit running as goroutines    *)
(*              whose reads and writes of the session interleave           *)
(*   SpecBoard  the board engine under sequences of drops                  *)
(*   SpecWin    CheckWin applied to boards drawn from a bounded family     *)
(*   SpecQueue      the matchmaking queue, AddPlayer / RemovePlayer / the  *)
(*                  fallback timer as interleaved reads and writes         *)
(*   SpecFallback   joins, closed connections and fallback timers, atomic  *)
(*   SpecReconnect  one session under disconnects, rejoins and forfeits    *)
(*   SpecBot        the bot's choice of a column on bounded boards         *)
(*   SpecBotSession one session against the bot from its first move on     *)
(*   SpecBotCall    Manager.BotMakeMove called with any ID and column      *)
(*   SpecSettle     sessions finishing while database writes may fail      *)
(***************************************************************************)
EXTENDS Integers, Sequences, FiniteSets, TLC

(***************************************************************************)
(* Program constants (game/logic).                                         *)
(***************************************************************************)
ROWS == 6
COLS == 7
WIN_LENGTH == 4

Rows == 0 .. (ROWS - 1)
Cols == 0 .. (COLS - 1)

\* An empty cell: Go's nil interface value.
Nil == "nil"
\* The automated side's fixed identifier and turn token.
BotID == "bot"

VARIABLES
    bd,     \* SpecBoard / SpecWin: the board the engine is applied to
    res     \* SpecBoard / SpecWin: the result of the last call

VARIABLES
    games,              \* Manager.games: game ID -> Game
    reconnectWindows,   \* Manager.reconnectWindows: game ID -> ReconnectWindow
    waitingPlayers,     \* Service.waitingPlayers
    botTimers,          \* Service.botTimers: the player IDs that have an entry
    matchTimers,        \* armed fallback timers (ScheduleBotMatch), by player
    forfeitTimers,      \* armed forfeit timers (HandleDisconnect)
    botMoveTimers,      \* armed bot-move pacing timers, by game ID
    conns,              \* each websocket connection: "open" or "closed"
    leaderboard,        \* the leaderboard table: username -> counters
    audit,              \* per finished game ID: what finished it, the session
                        \* as it was last saved or settled, and how many times
                        \* SaveGame and UpdateLeaderboard were called on it
    now,                \* the clock, in seconds
    fresh,              \* how many player IDs and game IDs have been issued
    reply,              \* the last request and the answer it got
    goroutines          \* SpecRace: the position and the locals of the calls
                        \* of Manager operations that are under way

boardVars == <<bd, res, goroutines>>
serverVars == <<games, reconnectWindows, waitingPlayers, botTimers, matchTimers,
                forfeitTimers, botMoveTimers, conns, leaderboard, audit, now,
                fresh, reply, goroutines>>
vars == <<bd, res, games, reconnectWindows, waitingPlayers, botTimers, matchTimers,
          forfeitTimers, botMoveTimers, conns, leaderboard, audit, now, fresh, reply,
          goroutines>>

(***************************************************************************)
(* Board engine.                                                           *)
(***************************************************************************)
CreateBoard == [r \in Rows |-> [c \in Cols |-> Nil]]

InBounds(row, col) == row >= 0 /\ row < ROWS /\ col >= 0 /\ col < COLS

\* The loop of MakeMove: the first empty row of the column, scanning from
\* row downward to row 0 of the slice (the top of the grid); -1 when none.
RECURSIVE LowestEmptyRow(_, _, _)
LowestEmptyRow(board, column, row) ==
    IF row < 0 THEN -1
    ELSE IF board[row][column] = Nil THEN row
    ELSE LowestEmptyRow(board, column, row - 1)

\* A drop that overwrites the top cell of a full column instead of failing.
MakeMove_Overwrite(board, column, playerID) ==
    IF column < 0 \/ column >= COLS
    THEN [Success |-> FALSE, Message |-> "Invalid column", Row |-> 0, Board |-> board]
    ELSE LET row == LowestEmptyRow(board, column, ROWS - 1)
         IN IF row = -1
            THEN [Success |-> TRUE, Message |-> "", Row |-> 0,
                  Board |-> [board EXCEPT ![0][column] = playerID]]
            ELSE [Success |-> TRUE, Message |-> "", Row |-> row,
                  Board |-> [board EXCEPT ![row][column] = playerID]]

\* A drop that lands in the top row of the column, whatever lies below.
MakeMove_FromTop(board, column, playerID) ==
    IF column < 0 \/ column >= COLS
    THEN [Success |-> FALSE, Message |-> "Invalid column", Row |-> 0, Board |-> board]
    ELSE IF board[0][column] # Nil
         THEN [Success |-> FALSE, Message |-> "Column is full", Row |-> 0,
               Board |-> board]
         ELSE [Success |-> TRUE, Message |-> "", Row |-> 0,
               Board |-> [board EXCEPT ![0][column] = playerID]]

\* A successful drop that also clears the cell at the far end of the row.
MakeMove_TouchesNeighbour(board, column, playerID) ==
    IF column < 0 \/ column >= COLS
    THEN [Success |-> FALSE, Message |-> "Invalid column", Row |-> 0, Board |-> board]
    ELSE LET row == LowestEmptyRow(board, column, ROWS - 1)
         IN IF row = -1
            THEN [Success |-> FALSE, Message |-> "Column is full", Row |-> 0,
                  Board |-> board]
            ELSE [Success |-> TRUE, Message |-> "", Row |-> row,
                  Board |-> [board EXCEPT ![row][column] = playerID,
                                          ![row][COLS - 1 - column] =
                                              IF column = COLS - 1 - column
                                              THEN playerID ELSE Nil]]

\* logic MakeMove: the MoveResult, with the board as the call leaves it.
MakeMove(board, column, playerID) ==
    IF column < 0 \/ column >= COLS
    THEN [Success |-> FALSE, Message |-> "Invalid column", Row |-> 0, Board |-> board]
    ELSE LET row == LowestEmptyRow(board, column, ROWS - 1)
         IN IF row = -1
            THEN [Success |-> FALSE, Message |-> "Column is full", Row |-> 0,
                  Board |-> board]
            ELSE [Success |-> TRUE, Message |-> "", Row |-> row,
                  Board |-> [board EXCEPT ![row][column] = playerID]]

\* One loop of checkDirection: the cells equal to playerID met from
\* (row, col) onward in steps of (deltaRow, deltaCol).
RECURSIVE CountRun(_, _, _, _, _, _)
CountRun(board, row, col, deltaRow, deltaCol, playerID) ==
    IF InBounds(row, col) /\ board[row][col] = playerID
    THEN 1 + CountRun(board, row + deltaRow, col + deltaCol, deltaRow, deltaCol, playerID)
    ELSE 0

\* checkDirection counting in the positive direction only.
checkDirection_OneWay(board, startRow, startCol, deltaRow, deltaCol, playerID) ==
    1 + CountRun(board, startRow + deltaRow, startCol + deltaCol,
                 deltaRow, deltaCol, playerID) >= WIN_LENGTH

checkDirection(board, startRow, startCol, deltaRow, deltaCol, playerID) ==
    LET count == 1
                 + CountRun(board, startRow + deltaRow, startCol + deltaCol,
                            deltaRow, deltaCol, playerID)
                 + CountRun(board, startRow - deltaRow, startCol - deltaCol,
                            -deltaRow, -deltaCol, playerID)
    IN count >= WIN_LENGTH

CheckWin(board, row, col) ==
    LET playerID == board[row][col]
    IN IF playerID = Nil THEN [Won |-> FALSE, Direction |-> ""]
       ELSE IF checkDirection(board, row, col, 0, 1, playerID)
            THEN [Won |-> TRUE, Direction |-> "horizontal"]
       ELSE IF checkDirection(board, row, col, 1, 0, playerID)
            THEN [Won |-> TRUE, Direction |-> "vertical"]
       ELSE IF checkDirection(board, row, col, 1, 1, playerID)
            THEN [Won |-> TRUE, Direction |-> "diagonal"]
       ELSE IF checkDirection(board, row, col, 1, -1, playerID)
            THEN [Won |-> TRUE, Direction |-> "diagonal"]
       ELSE [Won |-> FALSE, Direction |-> ""]

IsBoardFull(board) == \A col \in Cols : board[0][col] # Nil

\* The columns 0 .. COLS-1 in the order the loops visit them.
ColSeq == [i \in 1 .. COLS |-> i - 1]

GetValidMoves(board) == SelectSeq(ColSeq, LAMBDA col : board[0][col] = Nil)

\* Number of occupied cells of a column / of the board.
ColumnCount(board, col) == Cardinality({r \in Rows : board[r][col] # Nil})
PieceCount(board) == Cardinality({rc \in Rows \X Cols : board[rc[1]][rc[2]] # Nil})

\* evaluateLine: the payoff of the window of WIN_LENGTH cells that starts at
\* (startRow, startCol) and runs in steps of (deltaRow, deltaCol).
evaluateLine(board, startRow, startCol, deltaRow, deltaCol, playerID, opponentID) ==
    LET Idx == 0 .. (WIN_LENGTH - 1)
        rowAt(i) == startRow + i * deltaRow
        colAt(i) == startCol + i * deltaCol
    IN IF \E i \in Idx : ~InBounds(rowAt(i), colAt(i)) THEN 0
       ELSE LET playerCount ==
                    Cardinality({i \in Idx : board[rowAt(i)][colAt(i)] = playerID})
                opponentCount ==
                    Cardinality({i \in Idx : /\ board[rowAt(i)][colAt(i)] # playerID
                                             /\ board[rowAt(i)][colAt(i)] = opponentID})
                emptyCount == WIN_LENGTH - playerCount - opponentCount
            IN IF opponentCount > 0 /\ playerCount > 0 THEN 0
               ELSE IF playerCount = WIN_LENGTH THEN 10000
               ELSE IF opponentCount = WIN_LENGTH THEN -10000
               ELSE IF opponentCount = WIN_LENGTH - 1 /\ emptyCount = 1 THEN -1000
               ELSE IF playerCount = WIN_LENGTH - 1 /\ emptyCount = 1 THEN 1000
               ELSE IF playerCount = WIN_LENGTH - 2 /\ emptyCount = 2 THEN 100
               ELSE IF opponentCount = WIN_LENGTH - 2 /\ emptyCount = 2 THEN -100
               ELSE playerCount * 10 - opponentCount * 10

\* The body of the loops of EvaluatePosition at (row, col): the four windows
\* that start there.
ScoreAt(board, row, col, playerID, opponentID) ==
    evaluateLine(board, row, col, 0, 1, playerID, opponentID)
    + evaluateLine(board, row, col, 1, 0, playerID, opponentID)
    + evaluateLine(board, row, col, 1, 1, playerID, opponentID)
    + evaluateLine(board, row, col, 1, -1, playerID, opponentID)

\* The inner loop of EvaluatePosition, from column col on.
RECURSIVE ScoreRow(_, _, _, _, _)
ScoreRow(board, row, col, playerID, opponentID) ==
    IF col >= COLS THEN 0
    ELSE ScoreAt(board, row, col, playerID, opponentID)
         + ScoreRow(board, row, col + 1, playerID, opponentID)

\* The outer loop of EvaluatePosition, from row on.
RECURSIVE ScoreRows(_, _, _, _)
ScoreRows(board, row, playerID, opponentID) ==
    IF row >= ROWS THEN 0
    ELSE ScoreRow(board, row, 0, playerID, opponentID)
         + ScoreRows(board, row + 1, playerID, opponentID)

EvaluatePosition(board, playerID, opponentID) ==
    ScoreRows(board, 0, playerID, opponentID)

abs(x) == IF x < 0 THEN -x ELSE x

\* The first column of validMoves (from index i on) whose drop by playerID
\* wins at once; -1 when there is none.
RECURSIVE FirstWinningColumn(_, _, _, _)
FirstWinningColumn(board, validMoves, i, playerID) ==
    IF i > Len(validMoves) THEN -1
    ELSE LET col == validMoves[i]
             moveResult == MakeMove(board, col, playerID)
         IN IF moveResult.Success /\ CheckWin(moveResult.Board, moveResult.Row, col).Won
            THEN col
            ELSE FirstWinningColumn(board, validMoves, i + 1, playerID)

\* A scoring turn that lets a later column of equal score replace the best.
Better_LastOnTie(best, col, success, score) ==
    IF success /\ score >= best.score THEN [col |-> col, score |-> score] ELSE best

\* One turn of the scoring loop of the bot: best is [col, score] so far,
\* score the score of the drop into col.
Better(best, col, success, score) ==
    IF success /\ score > best.score THEN [col |-> col, score |-> score] ELSE best

\* The scoring loop of the bot over validMoves, from index i on.
RECURSIVE BestScoredColumn(_, _, _, _, _)
BestScoredColumn(board, validMoves, i, opponentID, best) ==
    IF i > Len(validMoves) THEN best.col
    ELSE LET col == validMoves[i]
             moveResult == MakeMove(board, col, BotID)
         IN BestScoredColumn(board, validMoves, i + 1, opponentID,
                Better(best, col, moveResult.Success,
                       EvaluatePosition(moveResult.Board, BotID, opponentID)
                       + (3 - abs(col - 3)) * 5))

\* A bot that takes its own immediate win before it blocks.
BotColumn_WinFirst(board, opponentID) ==
    LET validMoves == GetValidMoves(board)
        blockingColumn == FirstWinningColumn(board, validMoves, 1, opponentID)
        winningColumn == FirstWinningColumn(board, validMoves, 1, BotID)
    IN IF winningColumn # -1 THEN winningColumn
       ELSE IF blockingColumn # -1 THEN blockingColumn
       ELSE BestScoredColumn(board, validMoves, 1, opponentID,
                             [col |-> validMoves[1], score |-> -999999])

\* bot Player.MakeMove, the choice of the column: block the opponent's
\* immediate win, else win at once, else the best-scored column.  Called
\* with a board that has a valid move.
BotColumn(board, opponentID) ==
    LET validMoves == GetValidMoves(board)
        blockingColumn == FirstWinningColumn(board, validMoves, 1, opponentID)
        winningColumn == FirstWinningColumn(board, validMoves, 1, BotID)
    IN IF blockingColumn # -1 THEN blockingColumn
       ELSE IF winningColumn # -1 THEN winningColumn
       ELSE BestScoredColumn(board, validMoves, 1, opponentID,
                             [col |-> validMoves[1], score |-> -999999])

(***************************************************************************)
(* Session manager (game.Manager).                                         *)
(***************************************************************************)
\* The bot's nil connection.
NoConn == "noconn"
\* EndedAt of a session that has not ended (a nil *time.Time).
NoTime == -1
\* The reconnect window and the forfeit timer, in seconds.
ReconnectSecs == 30

NewPlayer(id, username, conn, isBot) ==
    [ID |-> id, Username |-> username, Conn |-> conn, IsBot |-> isBot]

\* Manager.CreateGame that gives the first move to player 2.
CreateGame_SecondMovesFirst(player1, player2) ==
    [Player1 |-> player1,
     Player2 |-> player2,
     Board |-> CreateBoard,
     CurrentPlayer |-> player2.ID,
     Status |-> "active",
     Winner |-> "",
     Moves |-> <<>>,
     EndedAt |-> NoTime]

\* Manager.CreateGame: the Game stored under the new game ID.
CreateGame(player1, player2) ==
    [Player1 |-> player1,
     Player2 |-> player2,
     Board |-> CreateBoard,
     CurrentPlayer |-> player1.ID,
     Status |-> "active",
     Winner |-> "",
     Moves |-> <<>>,
     EndedAt |-> NoTime]

NoRow == [wins |-> 0, losses |-> 0, draws |-> 0, total_games |-> 0]

\* INSERT ... ON CONFLICT (username) DO UPDATE of UpdateLeaderboard.
Upsert(lb, username, wins, losses, draws) ==
    LET old == IF username \in DOMAIN lb THEN lb[username] ELSE NoRow
        row == [wins |-> old.wins + wins,
                losses |-> old.losses + losses,
                draws |-> old.draws + draws,
                total_games |-> old.total_games + 1]
    IN [u \in DOMAIN lb \cup {username} |-> IF u = username THEN row ELSE lb[u]]

\* Manager.UpdateLeaderboard: the table after the call.
UpdateLeaderboard(lb, game) ==
    IF game.Status # "finished" THEN lb
    ELSE LET w1 == IF game.Winner = game.Player1.ID THEN 1 ELSE 0
             l1 == IF game.Winner # game.Player1.ID /\ game.Winner # "draw" THEN 1 ELSE 0
             d1 == IF game.Winner # game.Player1.ID /\ game.Winner = "draw" THEN 1 ELSE 0
             lb1 == Upsert(lb, game.Player1.Username, w1, l1, d1)
             w2 == IF game.Winner = "bot" \/ game.Winner = game.Player2.ID THEN 1 ELSE 0
             l2 == IF w2 = 0 /\ game.Winner # "draw" /\ game.Winner # game.Player2.ID
                   THEN 1 ELSE 0
             d2 == IF w2 = 0 /\ l2 = 0 /\ game.Winner = "draw" THEN 1 ELSE 0
         IN IF game.Player2.IsBot THEN lb1
            ELSE Upsert(lb1, game.Player2.Username, w2, l2, d2)

\* A GameMoveResult of a rejected request: gs is the Manager's games as the
\* call leaves them.
MoveFailure(gs, message) ==
    [Success |-> FALSE, Message |-> message, Games |-> gs, Settled |-> FALSE]

\* FinishOrSwitch that hands the turn to the token "bot" whoever player 2 is.
FinishOrSwitch_AlwaysBotToken(moved, row, column, t) ==
    IF CheckWin(moved.Board, row, column).Won
    THEN [moved EXCEPT !.Status = "finished", !.Winner = moved.CurrentPlayer,
                       !.EndedAt = t]
    ELSE IF IsBoardFull(moved.Board)
    THEN [moved EXCEPT !.Status = "finished", !.Winner = "draw", !.EndedAt = t]
    ELSE IF moved.CurrentPlayer = moved.Player1.ID
    THEN [moved EXCEPT !.CurrentPlayer = "bot"]
    ELSE [moved EXCEPT !.CurrentPlayer = moved.Player1.ID]

\* FinishOrSwitch that leaves the turn with player 2 once player 2 has it.
FinishOrSwitch_SecondKeepsTurn(moved, row, column, t) ==
    IF CheckWin(moved.Board, row, column).Won
    THEN [moved EXCEPT !.Status = "finished", !.Winner = moved.CurrentPlayer,
                       !.EndedAt = t]
    ELSE IF IsBoardFull(moved.Board)
    THEN [moved EXCEPT !.Status = "finished", !.Winner = "draw", !.EndedAt = t]
    ELSE IF moved.CurrentPlayer = moved.Player1.ID
    THEN IF moved.Player2.IsBot
         THEN [moved EXCEPT !.CurrentPlayer = "bot"]
         ELSE [moved EXCEPT !.CurrentPlayer = moved.Player2.ID]
    ELSE moved

\* FinishOrSwitch that tests for the full board before the win.
FinishOrSwitch_DrawFirst(moved, row, column, t) ==
    IF IsBoardFull(moved.Board)
    THEN [moved EXCEPT !.Status = "finished", !.Winner = "draw", !.EndedAt = t]
    ELSE IF CheckWin(moved.Board, row, column).Won
    THEN [moved EXCEPT !.Status = "finished", !.Winner = moved.CurrentPlayer,
                       !.EndedAt = t]
    ELSE IF moved.CurrentPlayer = moved.Player1.ID
    THEN IF moved.Player2.IsBot
         THEN [moved EXCEPT !.CurrentPlayer = "bot"]
         ELSE [moved EXCEPT !.CurrentPlayer = moved.Player2.ID]
    ELSE [moved EXCEPT !.CurrentPlayer = moved.Player1.ID]

\* The end of Manager.MakeMove, after the piece is placed and the move is
\* recorded: a win, a draw or the switch of turns.
FinishOrSwitch(moved, row, column, t) ==
    IF CheckWin(moved.Board, row, column).Won
    THEN [moved EXCEPT !.Status = "finished", !.Winner = moved.CurrentPlayer,
                       !.EndedAt = t]
    ELSE IF IsBoardFull(moved.Board)
    THEN [moved EXCEPT !.Status = "finished", !.Winner = "draw", !.EndedAt = t]
    ELSE IF moved.CurrentPlayer = moved.Player1.ID
    THEN IF moved.Player2.IsBot
         THEN [moved EXCEPT !.CurrentPlayer = "bot"]
         ELSE [moved EXCEPT !.CurrentPlayer = moved.Player2.ID]
    ELSE [moved EXCEPT !.CurrentPlayer = moved.Player1.ID]

\* Manager.MakeMove that drops the piece before it looks at the connection.
ManagerMakeMove_PlacesBeforeTurnCheck(gs, gameID, column, conn, t) ==
    IF gameID \notin DOMAIN gs THEN MoveFailure(gs, "Game not found")
    ELSE LET game == gs[gameID]
             player == IF game.CurrentPlayer = game.Player1.ID
                       THEN game.Player1 ELSE game.Player2
             inRange == ~(column < 0 \/ column >= 7)
             moveResult == MakeMove(game.Board, IF inRange THEN column ELSE 0,
                                    game.CurrentPlayer)
             placed == [gs EXCEPT ![gameID].Board = moveResult.Board]
             moved == [game EXCEPT
                         !.Board = moveResult.Board,
                         !.Moves = Append(@, [Player |-> game.CurrentPlayer,
                                              Column |-> column,
                                              Row |-> moveResult.Row])]
             after == FinishOrSwitch(moved, moveResult.Row, column, t)
         IN IF game.Status # "active" THEN MoveFailure(gs, "Game is not active")
            ELSE IF player.IsBot THEN MoveFailure(gs, "Not your turn")
            ELSE IF ~inRange THEN MoveFailure(gs, "Invalid column")
            ELSE IF player.Conn # conn THEN MoveFailure(placed, "Not your turn")
            ELSE IF ~moveResult.Success THEN MoveFailure(placed, moveResult.Message)
            ELSE [Success |-> TRUE, Message |-> "",
                  Games |-> [gs EXCEPT ![gameID] = after],
                  Settled |-> after.Status = "finished"]

\* Manager.MakeMove that takes a request of any connection for the side to
\* move.
ManagerMakeMove_AnyConn(gs, gameID, column, conn, t) ==
    IF gameID \notin DOMAIN gs THEN MoveFailure(gs, "Game not found")
    ELSE LET game == gs[gameID]
             player == IF game.CurrentPlayer = game.Player1.ID
                       THEN game.Player1 ELSE game.Player2
         IN IF game.Status # "active" THEN MoveFailure(gs, "Game is not active")
            ELSE IF player.IsBot THEN MoveFailure(gs, "Not your turn")
            ELSE IF column < 0 \/ column >= 7 THEN MoveFailure(gs, "Invalid column")
            ELSE LET moveResult == MakeMove(game.Board, column, game.CurrentPlayer)
                     moved == [game EXCEPT
                                 !.Board = moveResult.Board,
                                 !.Moves = Append(@, [Player |-> game.CurrentPlayer,
                                                      Column |-> column,
                                                      Row |-> moveResult.Row])]
                     after == FinishOrSwitch(moved, moveResult.Row, column, t)
                 IN IF ~moveResult.Success
                    THEN MoveFailure([gs EXCEPT ![gameID].Board = moveResult.Board],
                                     moveResult.Message)
                    ELSE [Success |-> TRUE, Message |-> "",
                          Games |-> [gs EXCEPT ![gameID] = after],
                          Settled |-> after.Status = "finished"]

\* Manager.MakeMove that records the move before it looks at the result of
\* the drop.
ManagerMakeMove_LogsBeforeDrop(gs, gameID, column, conn, t) ==
    IF gameID \notin DOMAIN gs THEN MoveFailure(gs, "Game not found")
    ELSE LET game == gs[gameID]
             player == IF game.CurrentPlayer = game.Player1.ID
                       THEN game.Player1 ELSE game.Player2
         IN IF game.Status # "active" THEN MoveFailure(gs, "Game is not active")
            ELSE IF player.IsBot THEN MoveFailure(gs, "Not your turn")
            ELSE IF player.Conn # conn THEN MoveFailure(gs, "Not your turn")
            ELSE IF column < 0 \/ column >= 7 THEN MoveFailure(gs, "Invalid column")
            ELSE LET moveResult == MakeMove(game.Board, column, game.CurrentPlayer)
                     moved == [game EXCEPT
                                 !.Board = moveResult.Board,
                                 !.Moves = Append(@, [Player |-> game.CurrentPlayer,
                                                      Column |-> column,
                                                      Row |-> moveResult.Row])]
                     after == FinishOrSwitch(moved, moveResult.Row, column, t)
                 IN IF ~moveResult.Success
                    THEN MoveFailure([gs EXCEPT ![gameID] = moved],
                                     moveResult.Message)
                    ELSE [Success |-> TRUE, Message |-> "",
                          Games |-> [gs EXCEPT ![gameID] = after],
                          Settled |-> after.Status = "finished"]

\* Manager.MakeMove at time t: the GameMoveResult, with the Manager's games
\* as the call leaves them (Games) and whether it called UpdateLeaderboard
\* on the session (Settled).
ManagerMakeMove(gs, gameID, column, conn, t) ==
    IF gameID \notin DOMAIN gs THEN MoveFailure(gs, "Game not found")
    ELSE LET game == gs[gameID]
             player == IF game.CurrentPlayer = game.Player1.ID
                       THEN game.Player1 ELSE game.Player2
         IN IF game.Status # "active" THEN MoveFailure(gs, "Game is not active")
            ELSE IF player.IsBot THEN MoveFailure(gs, "Not your turn")
            ELSE IF player.Conn # conn THEN MoveFailure(gs, "Not your turn")
            ELSE IF column < 0 \/ column >= 7 THEN MoveFailure(gs, "Invalid column")
            ELSE LET moveResult == MakeMove(game.Board, column, game.CurrentPlayer)
                     moved == [game EXCEPT
                                 !.Board = moveResult.Board,
                                 !.Moves = Append(@, [Player |-> game.CurrentPlayer,
                                                      Column |-> column,
                                                      Row |-> moveResult.Row])]
                     after == FinishOrSwitch(moved, moveResult.Row, column, t)
                 IN IF ~moveResult.Success
                    THEN MoveFailure([gs EXCEPT ![gameID].Board = moveResult.Board],
                                     moveResult.Message)
                    ELSE [Success |-> TRUE, Message |-> "",
                          Games |-> [gs EXCEPT ![gameID] = after],
                          Settled |-> after.Status = "finished"]

\* The end of Manager.BotMakeMove that never hands the turn back.
BotFinishOrSwitch_KeepsTurn(moved, row, column, t) ==
    IF CheckWin(moved.Board, row, column).Won
    THEN [moved EXCEPT !.Status = "finished", !.Winner = "bot", !.EndedAt = t]
    ELSE IF IsBoardFull(moved.Board)
    THEN [moved EXCEPT !.Status = "finished", !.Winner = "draw", !.EndedAt = t]
    ELSE moved

\* The end of Manager.BotMakeMove: a win, a draw or the turn handed back.
BotFinishOrSwitch(moved, row, column, t) ==
    IF CheckWin(moved.Board, row, column).Won
    THEN [moved EXCEPT !.Status = "finished", !.Winner = "bot", !.EndedAt = t]
    ELSE IF IsBoardFull(moved.Board)
    THEN [moved EXCEPT !.Status = "finished", !.Winner = "draw", !.EndedAt = t]
    ELSE [moved EXCEPT !.CurrentPlayer = moved.Player1.ID]

\* Manager.BotMakeMove that does not look at Status or CurrentPlayer.
BotMakeMove_NoTurnCheck(gs, gameID, column, t) ==
    IF gameID \notin DOMAIN gs THEN MoveFailure(gs, "")
    ELSE LET game == gs[gameID]
             moveResult == MakeMove(game.Board, column, "bot")
             moved == [game EXCEPT
                         !.Board = moveResult.Board,
                         !.Moves = Append(@, [Player |-> "bot", Column |-> column,
                                              Row |-> moveResult.Row])]
             after == BotFinishOrSwitch(moved, moveResult.Row, column, t)
         IN IF ~moveResult.Success
            THEN MoveFailure([gs EXCEPT ![gameID].Board = moveResult.Board], "")
            ELSE [Success |-> TRUE, Message |-> "",
                  Games |-> [gs EXCEPT ![gameID] = after],
                  Settled |-> after.Status = "finished"]

\* Manager.BotMakeMove at time t.
BotMakeMove(gs, gameID, column, t) ==
    IF gameID \notin DOMAIN gs THEN MoveFailure(gs, "")
    ELSE LET game == gs[gameID]
             moveResult == MakeMove(game.Board, column, "bot")
             moved == [game EXCEPT
                         !.Board = moveResult.Board,
                         !.Moves = Append(@, [Player |-> "bot", Column |-> column,
                                              Row |-> moveResult.Row])]
             after == BotFinishOrSwitch(moved, moveResult.Row, column, t)
         IN IF game.Status # "active" THEN MoveFailure(gs, "")
            ELSE IF game.CurrentPlayer # "bot" THEN MoveFailure(gs, "")
            ELSE IF ~moveResult.Success
            THEN MoveFailure([gs EXCEPT ![gameID].Board = moveResult.Board], "")
            ELSE [Success |-> TRUE, Message |-> "",
                  Games |-> [gs EXCEPT ![gameID] = after],
                  Settled |-> after.Status = "finished"]

\* Manager.ForfeitGame that does not look at Status.
ForfeitGame_NoStatusCheck(gs, gameID, forfeitingPlayerID, t) ==
    IF gameID \notin DOMAIN gs
    THEN [Forfeited |-> FALSE]
    ELSE LET game == gs[gameID]
             winner == IF game.Player1.ID = forfeitingPlayerID
                       THEN IF game.Player2.IsBot THEN "bot" ELSE game.Player2.ID
                       ELSE game.Player1.ID
         IN [Forfeited |-> TRUE,
             Game |-> [game EXCEPT !.Status = "finished", !.EndedAt = t,
                                   !.Winner = winner]]

\* Manager.ForfeitGame that names the forfeiting participant the winner.
ForfeitGame_WinnerForfeits(gs, gameID, forfeitingPlayerID, t) ==
    IF gameID \notin DOMAIN gs \/ gs[gameID].Status # "active"
    THEN [Forfeited |-> FALSE]
    ELSE [Forfeited |-> TRUE,
          Game |-> [gs[gameID] EXCEPT !.Status = "finished", !.EndedAt = t,
                                      !.Winner = forfeitingPlayerID]]

\* Manager.ForfeitGame that does not stamp EndedAt.
ForfeitGame_NoEndStamp(gs, gameID, forfeitingPlayerID, t) ==
    IF gameID \notin DOMAIN gs \/ gs[gameID].Status # "active"
    THEN [Forfeited |-> FALSE]
    ELSE LET game == gs[gameID]
             winner == IF game.Player1.ID = forfeitingPlayerID
                       THEN IF game.Player2.IsBot THEN "bot" ELSE game.Player2.ID
                       ELSE game.Player1.ID
         IN [Forfeited |-> TRUE,
             Game |-> [game EXCEPT !.Status = "finished", !.Winner = winner]]

\* Manager.ForfeitGame at time t: whether it forfeited, and the finished
\* session it then saves, settles and deletes.
ForfeitGame(gs, gameID, forfeitingPlayerID, t) ==
    IF gameID \notin DOMAIN gs \/ gs[gameID].Status # "active"
    THEN [Forfeited |-> FALSE]
    ELSE LET game == gs[gameID]
             winner == IF game.Player1.ID = forfeitingPlayerID
                       THEN IF game.Player2.IsBot THEN "bot" ELSE game.Player2.ID
                       ELSE game.Player1.ID
         IN [Forfeited |-> TRUE,
             Game |-> [game EXCEPT !.Status = "finished", !.EndedAt = t,
                                   !.Winner = winner]]

\* The map m with key k deleted (delete(m, k)).
Delete(m, k) == [x \in DOMAIN m \ {k} |-> m[x]]
\* The map m with m[k] = v.
Put(m, k, v) == [x \in DOMAIN m \cup {k} |-> IF x = k THEN v ELSE m[x]]

(***************************************************************************)
(* The environment of the server: connections, names, identifiers, the     *)
(* columns the clients send.                                               *)
(***************************************************************************)
ConnIDs == {"c1", "c2", "c3"}
Usernames == {"alice", "bob"}
\* The joins the clients send, in order: the connection, and the usernames
\* it may give.  The third connection only rejoins.
JoinSeq == <<[conn |-> "c1", names |-> {"alice"}],
             [conn |-> "c2", names |-> {"alice", "bob"}]>>
\* The player IDs (handleJoin: the clock in nanoseconds) and the game IDs
\* (CreateGame: a new UUID), in the order they are issued.
PlayerIDSeq == <<"p1", "p2">>
GameIDSeq == <<"g1", "g2", "g3">>
\* A game ID no session ever has.
UnknownGameID == "g0"

\* The clock advances by TickSecs up to MaxClock.
TickSecs == 30
MaxClock == 60
\* The first move of a session is sent for any of these columns; after it
\* the clients follow the scripted games below.
OpeningColumns == Cols
\* At most MaxClosed connections close.
MaxClosed == 1
\* Connections close and time passes only while no session has more than
\* ShortMoves moves; a session goes beyond ShortMoves moves only when no
\* connection has closed and no time has passed.
ShortMoves == 8

\* Two humans: 42 moves that fill the board with no four in a row (a draw).
DrawGame ==
    <<4, 1, 6, 2, 1, 0, 1, 4, 4, 2, 4, 1, 3, 6, 3, 3, 1, 0, 4, 6, 6,
      1, 2, 3, 2, 3, 2, 2, 6, 5, 5, 0, 5, 4, 6, 5, 5, 5, 0, 0, 3, 0>>
\* Two humans: the 42nd move fills the board and completes four in a row.
LastCellWinGame ==
    <<4, 1, 6, 2, 1, 0, 1, 4, 4, 2, 4, 1, 3, 6, 3, 3, 1, 0, 4, 6, 6,
      1, 2, 3, 2, 3, 2, 2, 6, 5, 5, 0, 5, 4, 6, 5, 5, 5, 0, 0, 0, 3>>
\* Human against the bot (odd moves the human's, even moves the bot's
\* choices): 42 moves to a draw, the last one the bot's.
BotDrawGame ==
    <<4, 4, 1, 3, 6, 3, 0, 3, 3, 1, 4, 0, 5, 5, 6, 5, 3, 5, 5, 1, 0,
      1, 1, 0, 0, 6, 6, 3, 1, 5, 0, 6, 6, 2, 2, 2, 2, 2, 2, 4, 4, 4>>
\* Short games: player 1 drops four times into column 3; player 2 wins in
\* column 3; the bot wins; the human beats the bot; two humans fill column 3.
Scripts ==
    {DrawGame, LastCellWinGame, BotDrawGame,
     <<3, 0, 3, 0, 3, 0, 3>>,
     <<0, 3, 0, 3, 0, 3, 1, 3>>,
     <<0, 3, 3, 4, 0, 2, 6, 1>>,
     <<3, 3, 4, 4, 2, 1, 5>>,
     <<3, 3, 3, 3, 3, 3>>}

IsPrefix(a, b) == Len(a) <= Len(b) /\ \A i \in 1 .. Len(a) : a[i] = b[i]
MoveColumnsOf(game) == [i \in 1 .. Len(game.Moves) |-> game.Moves[i].Column]

\* No connection has closed and no time has passed.
Undisturbed == now = 0 /\ \A c \in ConnIDs : conns[c] = "open"
\* Something timed is pending: a reconnect window or a forfeit timer.  The
\* clock advances only then (nothing reads it otherwise).
TimePending == DOMAIN reconnectWindows # {} \/ forfeitTimers # {}
\* Some session has more than ShortMoves moves.
LongGame == \E g \in DOMAIN games : Len(games[g].Moves) > ShortMoves

\* The joins the clients send: the next of JoinSeq, while no session has
\* been created.
JoinAllowed(conn, username) ==
    /\ fresh.player < Len(JoinSeq)
    /\ fresh.game = 0
    /\ conn = JoinSeq[fresh.player + 1].conn
    /\ username \in JoinSeq[fresh.player + 1].names

\* The requests that name a game ID no session has come from the third
\* connection, under a username no participant has.
Outsider == "eve"
KnownOrOutsider(conn, username, gameID) ==
    gameID = UnknownGameID => conn = "c3" /\ username = Outsider

\* The columns a client sends for a session: out-of-range columns, full
\* columns, the opening columns, and the next column of every script the
\* session has followed so far.
ColumnInputs(gameID) ==
    IF gameID \notin DOMAIN games THEN {0}
    ELSE LET game == games[gameID]
             n == Len(game.Moves)
         IN {-1, COLS}
            \cup {c \in Cols : game.Board[0][c] # Nil}
            \cup (IF n = 0 THEN OpeningColumns ELSE {})
            \cup (IF n < ShortMoves \/ Undisturbed
                  THEN {s[n + 1] : s \in {x \in Scripts :
                                             /\ Len(x) > n
                                             /\ IsPrefix(MoveColumnsOf(game), x)}}
                  ELSE {})

(***************************************************************************)
(* Spec: the server.  Every handler of a websocket message and every timer *)
(* callback is one action.                                                 *)
(***************************************************************************)
NoRes == [op |-> "none"]
NoAudit == [by |-> "none", saves |-> 0, settles |-> 0]

ServerInit ==
    /\ games = <<>>
    /\ reconnectWindows = <<>>
    /\ waitingPlayers = <<>>
    /\ botTimers = {}
    /\ matchTimers = {}
    /\ forfeitTimers = {}
    /\ botMoveTimers = {}
    /\ conns = [c \in ConnIDs |-> "open"]
    /\ leaderboard = <<>>
    /\ audit = <<>>
    /\ now = 0
    /\ fresh = [player |-> 0, game |-> 0, timer |-> 0]
    /\ reply = [op |-> "none"]
    /\ goroutines = <<>>

Init == ServerInit /\ bd = CreateBoard /\ res = NoRes

\* audit with the finished session `game` of ID gameID, finished by `by`
\* (when given), and that many more calls of SaveGame and UpdateLeaderboard
\* on it.
Audited(a, gameID, by, game, saves, settles) ==
    LET old == IF gameID \in DOMAIN a THEN a[gameID] ELSE NoAudit
    IN Put(a, gameID, [by |-> IF by = "" THEN old.by ELSE by,
                       game |-> game,
                       saves |-> old.saves + saves,
                       settles |-> old.settles + settles])

\* Manager.SaveGame: one more INSERT of the session, when it is finished.
SaveGame(a, gameID, game) ==
    IF game.Status # "finished" THEN a ELSE Audited(a, gameID, "", game, 1, 0)

\* Server.handleJoin whose AddPlayer appends to the queue whatever it holds.
HandleJoin_AlwaysEnqueues(conn, username) ==
    /\ conns[conn] = "open"
    /\ fresh.player < Len(PlayerIDSeq)
    /\ UNCHANGED <<reconnectWindows, forfeitTimers, botMoveTimers, conns,
                   leaderboard, audit, now, bd, res, goroutines>>
    /\ LET matchPlayer == NewPlayer(PlayerIDSeq[fresh.player + 1], username,
                                    conn, FALSE)
       IN /\ waitingPlayers' = Append(waitingPlayers, matchPlayer)
          /\ matchTimers' = matchTimers \cup {matchPlayer}
          /\ botTimers' = botTimers \cup {matchPlayer.ID}
          /\ fresh' = [fresh EXCEPT !.player = @ + 1]
          /\ reply' = [op |-> "join"]
          /\ UNCHANGED games

\* Server.handleJoin that makes the arrival player 1 of the session and the
\* participant that waited player 2.
HandleJoin_ArrivalFirst(conn, username) ==
    /\ conns[conn] = "open"
    /\ fresh.player < Len(PlayerIDSeq)
    /\ UNCHANGED <<reconnectWindows, forfeitTimers, botMoveTimers, conns,
                   leaderboard, audit, now, bd, res, goroutines>>
    /\ LET matchPlayer == NewPlayer(PlayerIDSeq[fresh.player + 1], username,
                                    conn, FALSE)
       IN IF Len(waitingPlayers) > 0
          THEN /\ fresh.game < Len(GameIDSeq)
               /\ waitingPlayers' = Tail(waitingPlayers)
               /\ games' = Put(games, GameIDSeq[fresh.game + 1],
                               CreateGame(matchPlayer, Head(waitingPlayers)))
               /\ fresh' = [fresh EXCEPT !.player = @ + 1, !.game = @ + 1]
               /\ reply' = [op |-> "join"]
               /\ UNCHANGED <<botTimers, matchTimers>>
          ELSE /\ waitingPlayers' = Append(waitingPlayers, matchPlayer)
               /\ matchTimers' = matchTimers \cup {matchPlayer}
               /\ botTimers' = botTimers \cup {matchPlayer.ID}
               /\ fresh' = [fresh EXCEPT !.player = @ + 1]
               /\ reply' = [op |-> "join"]
               /\ UNCHANGED games

\* Server.handleJoin, with Service.AddPlayer and Service.ScheduleBotMatch.
HandleJoin(conn, username) ==
    /\ conns[conn] = "open"
    /\ fresh.player < Len(PlayerIDSeq)
    /\ UNCHANGED <<reconnectWindows, forfeitTimers, botMoveTimers, conns,
                   leaderboard, audit, now, bd, res, goroutines>>
    /\ LET matchPlayer == NewPlayer(PlayerIDSeq[fresh.player + 1], username,
                                    conn, FALSE)
       IN IF Len(waitingPlayers) > 0
          THEN /\ fresh.game < Len(GameIDSeq)
               /\ waitingPlayers' = Tail(waitingPlayers)
               /\ games' = Put(games, GameIDSeq[fresh.game + 1],
                               CreateGame(Head(waitingPlayers), matchPlayer))
               /\ fresh' = [fresh EXCEPT !.player = @ + 1, !.game = @ + 1]
               /\ reply' = [op |-> "join"]
               /\ UNCHANGED <<botTimers, matchTimers>>
          ELSE /\ waitingPlayers' = Append(waitingPlayers, matchPlayer)
               /\ matchTimers' = matchTimers \cup {matchPlayer}
               /\ botTimers' = botTimers \cup {matchPlayer.ID}
               /\ fresh' = [fresh EXCEPT !.player = @ + 1]
               /\ reply' = [op |-> "join"]
               /\ UNCHANGED games

\* Service.RemovePlayer that leaves the queue as it is.
RemovePlayer_KeepsQueue(waiting, conn) == waiting
\* Service.RemovePlayer: the queue without the entries bound to conn.
RemovePlayer(waiting, conn) == SelectSeq(waiting, LAMBDA p : p.Conn # conn)

isPlayerWaiting(waiting, id) == \E i \in 1 .. Len(waiting) : waiting[i].ID = id
removeWaitingPlayer(waiting, id) == SelectSeq(waiting, LAMBDA p : p.ID # id)

\* The function of the fallback timer without its isPlayerWaiting check.
FallbackCallback_NoMembershipCheck(player) ==
    /\ reply' = [op |-> "matchTimer"]
    /\ UNCHANGED <<reconnectWindows, forfeitTimers, botMoveTimers, conns,
                   leaderboard, audit, now, bd, res, goroutines>>
    /\ fresh.game < Len(GameIDSeq)
    /\ waitingPlayers' = removeWaitingPlayer(waitingPlayers, player.ID)
    /\ botTimers' = botTimers \ {player.ID}
    /\ games' = Put(games, GameIDSeq[fresh.game + 1],
                    CreateGame(player, NewPlayer("bot", "Bot", NoConn, TRUE)))
    /\ fresh' = [fresh EXCEPT !.game = @ + 1]

\* The function Service.ScheduleBotMatch hands to time.AfterFunc, with the
\* callback Server.handleJoin passes to it.
FallbackCallback(player) ==
    /\ reply' = [op |-> "matchTimer"]
    /\ UNCHANGED <<reconnectWindows, forfeitTimers, botMoveTimers, conns,
                   leaderboard, audit, now, bd, res, goroutines>>
    /\ IF isPlayerWaiting(waitingPlayers, player.ID)
       THEN /\ fresh.game < Len(GameIDSeq)
            /\ waitingPlayers' = removeWaitingPlayer(waitingPlayers, player.ID)
            /\ botTimers' = botTimers \ {player.ID}
            /\ games' = Put(games, GameIDSeq[fresh.game + 1],
                            CreateGame(player, NewPlayer("bot", "Bot", NoConn, TRUE)))
            /\ fresh' = [fresh EXCEPT !.game = @ + 1]
       ELSE UNCHANGED <<waitingPlayers, botTimers, games, fresh>>

\* The timer armed by Service.ScheduleBotMatch for `player` fires.
MatchTimerFire(player) ==
    /\ player \in matchTimers
    /\ matchTimers' = matchTimers \ {player}
    /\ FallbackCallback(player)

\* Server.handleMakeMove: Manager.MakeMove, then SaveGame for a finished
\* session or the bot's pacing timer.
HandleMakeMove(conn, gameID, column) ==
    /\ conns[conn] = "open"
    /\ LET result == ManagerMakeMove(games, gameID, column, conn, now)
           game == result.Games[gameID]
       IN /\ reply' = [op |-> "makeMove", conn |-> conn, gameID |-> gameID,
                       Success |-> result.Success, Message |-> result.Message]
          /\ games' = result.Games
          /\ leaderboard' = IF result.Settled
                            THEN UpdateLeaderboard(leaderboard, game)
                            ELSE leaderboard
          /\ IF ~result.Success
             THEN UNCHANGED <<audit, botMoveTimers>>
             ELSE /\ audit' = IF game.Status = "finished"
                              THEN SaveGame(Audited(audit, gameID, "move", game, 0,
                                                    IF result.Settled THEN 1 ELSE 0),
                                            gameID, game)
                              ELSE audit
                  /\ botMoveTimers' =
                        IF /\ game.Status # "finished"
                           /\ game.CurrentPlayer = "bot"
                           /\ game.Player2.IsBot
                        THEN botMoveTimers \cup {gameID}
                        ELSE botMoveTimers
    /\ UNCHANGED <<reconnectWindows, waitingPlayers, botTimers, matchTimers,
                   forfeitTimers, conns, now, fresh, bd, res, goroutines>>

\* A callback of the bot's pacing timer that settles the session it holds
\* when it finds the session forfeited.
BotMoveTimerFire_SettlesStale(gameID) ==
    /\ gameID \in botMoveTimers
    /\ botMoveTimers' = botMoveTimers \ {gameID}
    /\ reply' = [op |-> "botMove"]
    /\ UNCHANGED <<reconnectWindows, waitingPlayers, botTimers, matchTimers,
                   forfeitTimers, conns, now, fresh, bd, res, goroutines>>
    /\ IF gameID \notin DOMAIN games /\ gameID \in DOMAIN audit
       THEN /\ leaderboard' = UpdateLeaderboard(leaderboard, audit[gameID].game)
            /\ audit' = Audited(audit, gameID, "", audit[gameID].game, 0, 1)
            /\ UNCHANGED games
       ELSE IF \/ gameID \notin DOMAIN games
               \/ games[gameID].Status # "active"
               \/ games[gameID].CurrentPlayer # "bot"
               \/ Len(GetValidMoves(games[gameID].Board)) = 0
       THEN UNCHANGED <<games, leaderboard, audit>>
       ELSE \E column \in {BotColumn(games[gameID].Board, games[gameID].Player1.ID)} :
            \E result \in {BotMakeMove(games, gameID, column, now)} :
               /\ games' = result.Games
               /\ leaderboard' = IF result.Settled
                                 THEN UpdateLeaderboard(leaderboard, result.Games[gameID])
                                 ELSE leaderboard
               /\ audit' = IF result.Success /\ result.Games[gameID].Status = "finished"
                           THEN Audited(audit, gameID, "bot", result.Games[gameID], 0,
                                        IF result.Settled THEN 1 ELSE 0)
                           ELSE audit

\* The callback of the bot's pacing timer: bot Player.MakeMove on the
\* session the timer was armed for, with executeMove.
BotMoveTimerFire(gameID) ==
    /\ gameID \in botMoveTimers
    /\ botMoveTimers' = botMoveTimers \ {gameID}
    /\ reply' = [op |-> "botMove"]
    /\ UNCHANGED <<reconnectWindows, waitingPlayers, botTimers, matchTimers,
                   forfeitTimers, conns, now, fresh, bd, res, goroutines>>
    /\ IF \/ gameID \notin DOMAIN games    \* forfeited: the Game is finished
          \/ games[gameID].Status # "active"
          \/ games[gameID].CurrentPlayer # "bot"
          \/ Len(GetValidMoves(games[gameID].Board)) = 0
       THEN UNCHANGED <<games, leaderboard, audit>>
       ELSE \E column \in {BotColumn(games[gameID].Board, games[gameID].Player1.ID)} :
            \E result \in {BotMakeMove(games, gameID, column, now)} :
               /\ games' = result.Games
               /\ leaderboard' = IF result.Settled
                                 THEN UpdateLeaderboard(leaderboard, result.Games[gameID])
                                 ELSE leaderboard
               /\ audit' = IF result.Success /\ result.Games[gameID].Status = "finished"
                           THEN Audited(audit, gameID, "bot", result.Games[gameID], 0,
                                        IF result.Settled THEN 1 ELSE 0)
                           ELSE audit

\* The effect of a successful Manager.ForfeitGame: SaveGame,
\* UpdateLeaderboard, and the session and its window deleted.
Forfeited(f, gameID) ==
    /\ games' = Delete(games, gameID)
    /\ reconnectWindows' = Delete(reconnectWindows, gameID)
    /\ leaderboard' = UpdateLeaderboard(leaderboard, f.Game)
    /\ audit' = SaveGame(Audited(audit, gameID, "forfeit", f.Game, 0, 1), gameID, f.Game)

\* The callback of the forfeit timer armed by Manager.HandleDisconnect.
ForfeitTimerFire(timer) ==
    /\ timer \in forfeitTimers
    /\ now >= timer.due
    /\ forfeitTimers' = forfeitTimers \ {timer}
    /\ reply' = [op |-> "forfeitTimer"]
    /\ UNCHANGED <<waitingPlayers, botTimers, matchTimers, botMoveTimers, conns,
                   now, fresh, bd, res, goroutines>>
    /\ LET f == ForfeitGame(games, timer.gameID, timer.playerID, now)
       IN IF timer.gameID \in DOMAIN reconnectWindows /\ f.Forfeited
          THEN Forfeited(f, timer.gameID)
          ELSE UNCHANGED <<games, reconnectWindows, leaderboard, audit>>

\* Manager.RejoinGame that does not compare the clock with ExpiresAt.
RejoinOutcome_IgnoresExpiry(gs, windows, username, gameID, t) ==
    IF gameID \notin DOMAIN gs THEN "notFound"
    ELSE IF gameID \notin DOMAIN windows THEN "noWindow"
    ELSE IF gs[gameID].Player1.Username = username THEN "player1"
    ELSE IF gs[gameID].Player2.Username = username THEN "player2"
    ELSE "mismatch"

\* Manager.RejoinGame that rebinds player 1 whatever the username.
RejoinOutcome_NoNameCheck(gs, windows, username, gameID, t) ==
    IF gameID \notin DOMAIN gs THEN "notFound"
    ELSE IF gameID \notin DOMAIN windows THEN "noWindow"
    ELSE IF t > windows[gameID].ExpiresAt THEN "expired"
    ELSE IF gs[gameID].Player2.Username = username THEN "player2"
    ELSE "player1"

\* Manager.RejoinGame at time t: the branch it takes.
RejoinOutcome(gs, windows, username, gameID, t) ==
    IF gameID \notin DOMAIN gs THEN "notFound"
    ELSE IF gameID \notin DOMAIN windows THEN "noWindow"
    ELSE IF t > windows[gameID].ExpiresAt THEN "expired"
    ELSE IF gs[gameID].Player1.Username = username THEN "player1"
    ELSE IF gs[gameID].Player2.Username = username THEN "player2"
    ELSE "mismatch"

\* Server.handleRejoin: Manager.RejoinGame.
HandleRejoin(conn, username, gameID) ==
    /\ conns[conn] = "open"
    /\ UNCHANGED <<waitingPlayers, botTimers, matchTimers, forfeitTimers,
                   botMoveTimers, conns, now, fresh, bd, res, goroutines>>
    /\ LET Answer(ok, message) ==
               reply' = [op |-> "rejoin", Success |-> ok, Message |-> message]
           outcome == RejoinOutcome(games, reconnectWindows, username, gameID, now)
       IN CASE outcome = "notFound" ->
                 /\ Answer(FALSE, "Game not found")
                 /\ UNCHANGED <<games, reconnectWindows, leaderboard, audit>>
            [] outcome = "noWindow" ->
                 /\ Answer(FALSE, "Reconnection window expired")
                 /\ UNCHANGED <<games, reconnectWindows, leaderboard, audit>>
            [] outcome = "expired" ->
                 /\ Answer(FALSE, "Reconnection window expired")
                 /\ LET f == ForfeitGame(games, gameID,
                                         reconnectWindows[gameID].PlayerID, now)
                    IN IF f.Forfeited
                       THEN Forfeited(f, gameID)
                       ELSE /\ reconnectWindows' = Delete(reconnectWindows, gameID)
                            /\ UNCHANGED <<games, leaderboard, audit>>
            [] outcome = "player1" ->
                 /\ Answer(TRUE, "")
                 /\ games' = [games EXCEPT ![gameID].Player1.Conn = conn]
                 /\ reconnectWindows' = Delete(reconnectWindows, gameID)
                 /\ UNCHANGED <<leaderboard, audit>>
            [] outcome = "player2" ->
                 /\ Answer(TRUE, "")
                 /\ games' = [games EXCEPT ![gameID].Player2.Conn = conn]
                 /\ reconnectWindows' = Delete(reconnectWindows, gameID)
                 /\ UNCHANGED <<leaderboard, audit>>
            [] outcome = "mismatch" ->
                 /\ Answer(FALSE, "Username does not match this game")
                 /\ UNCHANGED <<games, reconnectWindows, leaderboard, audit>>

\* Manager.HandleDisconnect that does not skip the sessions that are not
\* active.
DisconnectedPlayer_IgnoresStatus(game, conn) ==
    IF game.Player1.Conn = conn THEN game.Player1.ID
    ELSE IF game.Player2.Conn = conn /\ ~game.Player2.IsBot THEN game.Player2.ID
    ELSE ""

\* Manager.HandleDisconnect, for one session: the player the closed
\* connection was bound to, or "" when there is none.
DisconnectedPlayer(game, conn) ==
    IF game.Status # "active" THEN ""
    ELSE IF game.Player1.Conn = conn THEN game.Player1.ID
    ELSE IF game.Player2.Conn = conn /\ ~game.Player2.IsBot THEN game.Player2.ID
    ELSE ""

\* The read loop of Server.handleWebSocket failing: Service.RemovePlayer,
\* then Manager.HandleDisconnect.  The timers RemovePlayer stops do not
\* fire; the callback of a timer that had expired before it was stopped is
\* StrayCallback of SpecFallback.
Disconnect(conn) ==
    /\ conns[conn] = "open"
    /\ conns' = [conns EXCEPT ![conn] = "closed"]
    /\ reply' = [op |-> "disconnect"]
    /\ LET newWaiting == RemovePlayer(waitingPlayers, conn)
           stopped == {id \in botTimers : ~isPlayerWaiting(newWaiting, id)}
       IN /\ waitingPlayers' = newWaiting
          /\ botTimers' = botTimers \ stopped
          /\ matchTimers' = {p \in matchTimers : p.ID \notin stopped}
    /\ LET hit == {g \in DOMAIN games : DisconnectedPlayer(games[g], conn) # ""}
           n == fresh.timer
       IN /\ reconnectWindows' =
                [g \in DOMAIN reconnectWindows \cup hit |->
                    IF g \in hit
                    THEN [PlayerID |-> DisconnectedPlayer(games[g], conn),
                          ExpiresAt |-> now + ReconnectSecs]
                    ELSE reconnectWindows[g]]
          /\ forfeitTimers' = forfeitTimers \cup
                {[gameID |-> g, playerID |-> DisconnectedPlayer(games[g], conn),
                  due |-> now + ReconnectSecs, n |-> n] : g \in hit}
          /\ fresh' = [fresh EXCEPT !.timer = IF hit = {} THEN @ ELSE @ + 1]
    /\ UNCHANGED <<games, botMoveTimers, leaderboard, audit, now, bd, res, goroutines>>

\* Time passes.
Tick ==
    /\ now + TickSecs <= MaxClock
    /\ now' = now + TickSecs
    /\ reply' = [op |-> "tick"]
    /\ UNCHANGED <<games, reconnectWindows, waitingPlayers, botTimers, matchTimers,
                   forfeitTimers, botMoveTimers, conns, leaderboard, audit, fresh,
                   bd, res, goroutines>>

\* The game IDs the requests name: the first session's, and the unknown one.
GameIDInputs == {GameIDSeq[1], UnknownGameID}

Next ==
    \/ \E conn \in ConnIDs, username \in Usernames :
          JoinAllowed(conn, username) /\ HandleJoin(conn, username)
    \/ \E player \in matchTimers : MatchTimerFire(player)
    \/ \E conn \in ConnIDs, gameID \in GameIDInputs :
          /\ KnownOrOutsider(conn, Outsider, gameID)
          /\ \E column \in ColumnInputs(gameID) : HandleMakeMove(conn, gameID, column)
    \/ \E gameID \in botMoveTimers : BotMoveTimerFire(gameID)
    \/ \E timer \in forfeitTimers : ForfeitTimerFire(timer)
    \/ \E conn \in ConnIDs, username \in Usernames \cup {Outsider},
          gameID \in GameIDInputs :
          KnownOrOutsider(conn, username, gameID) /\ HandleRejoin(conn, username, gameID)
    \/ /\ ~LongGame
       /\ Cardinality({c \in ConnIDs : conns[c] = "closed"}) < MaxClosed
       /\ \E conn \in ConnIDs : Disconnect(conn)
    \/ ~LongGame /\ TimePending /\ Tick

Spec == Init /\ [][Next]_vars

(***************************************************************************)
(* SpecPlay: the server while no connection closes and no time passes:     *)
(* joins, the fallback timer, moves and the bot's moves.                   *)
(***************************************************************************)
NextPlay ==
    \/ \E conn \in ConnIDs, username \in Usernames :
          JoinAllowed(conn, username) /\ HandleJoin(conn, username)
    \/ \E player \in matchTimers : MatchTimerFire(player)
    \/ \E conn \in ConnIDs, gameID \in GameIDInputs :
          /\ KnownOrOutsider(conn, Outsider, gameID)
          /\ \E column \in ColumnInputs(gameID) : HandleMakeMove(conn, gameID, column)
    \/ \E gameID \in botMoveTimers : BotMoveTimerFire(gameID)

SpecPlay == Init /\ [][NextPlay]_vars

(***************************************************************************)
(* SpecRace: one session, with a move (handleMakeMove / Manager.MakeMove,  *)
(* or the bot's Manager.BotMakeMove) and a forfeit (Manager.ForfeitGame,   *)
(* called by the forfeit timer) under way at once.  The Manager takes no   *)
(* lock: each call is a sequence of steps, a step is one read or one write *)
(* of the session (or one call that touches the database), and the steps   *)
(* of the two calls interleave in any order.                               *)
(***************************************************************************)
RaceGameID == "g1"

\* The games after the columns from the i-th on are played on the session
\* RaceGameID, by the side to move each time.
RECURSIVE PlayedOut(_, _, _)
PlayedOut(gs, columns, i) ==
    IF i > Len(columns) THEN gs
    ELSE LET game == gs[RaceGameID]
             player == IF game.CurrentPlayer = game.Player1.ID
                       THEN game.Player1 ELSE game.Player2
         IN IF game.CurrentPlayer = "bot"
            THEN PlayedOut(BotMakeMove(gs, RaceGameID, columns[i], 0).Games,
                           columns, i + 1)
            ELSE PlayedOut(ManagerMakeMove(gs, RaceGameID, columns[i],
                                           player.Conn, 0).Games,
                           columns, i + 1)

\* The sessions the race starts from: two humans after six moves, player 1
\* to move with three pieces in column 3; a human and the bot after seven
\* moves, the bot to move with a win in column 1.
RaceSessions ==
    {PlayedOut([g \in {RaceGameID} |->
                   CreateGame(NewPlayer("p1", "alice", "c1", FALSE),
                              NewPlayer("p2", "bob", "c2", FALSE))],
               <<3, 0, 3, 0, 3, 0>>, 1)[RaceGameID],
     PlayedOut([g \in {RaceGameID} |->
                   CreateGame(NewPlayer("p1", "alice", "c1", FALSE),
                              NewPlayer("bot", "Bot", NoConn, TRUE))],
               <<0, 3, 3, 4, 0, 2, 6>>, 1)[RaceGameID]}

\* The columns the racing move request carries.
RaceColumns == {0, 3, COLS}

\* The session object: the entry of Manager.games, or the object the calls
\* still hold once ForfeitGame has deleted the entry.
RaceGame ==
    IF RaceGameID \in DOMAIN games THEN games[RaceGameID] ELSE goroutines.unlinked

\* Goroutine name goes on as `local`, leaving the session object as `game`.
RaceStep(name, local, game) ==
    IF RaceGameID \in DOMAIN games
    THEN /\ games' = [games EXCEPT ![RaceGameID] = game]
         /\ goroutines' = [goroutines EXCEPT ![name] = local]
    ELSE /\ games' = games
         /\ goroutines' = [goroutines EXCEPT ![name] = local, !.unlinked = game]

RaceInit ==
    /\ \E session \in RaceSessions, forfeiting \in {"p1", "p2"}, conn \in {"c1", "c2"},
          column \in RaceColumns :
          /\ forfeiting \in {session.Player1.ID, session.Player2.ID}
          /\ session.Player2.IsBot => conn = "c1" /\ column = 3
          /\ games = [g \in {RaceGameID} |-> session]
          /\ reconnectWindows =
                [g \in {RaceGameID} |->
                    [PlayerID |-> forfeiting, ExpiresAt |-> ReconnectSecs]]
          /\ goroutines =
                [move |-> [pc |-> "lookup", conn |-> conn, column |-> column, row |-> 0,
                           bot |-> session.CurrentPlayer = "bot",
                           transitioned |-> FALSE],
                 forfeit |-> [pc |-> "check", playerID |-> forfeiting,
                              transitioned |-> FALSE],
                 unlinked |-> session]
    /\ waitingPlayers = <<>>
    /\ botTimers = {}
    /\ matchTimers = {}
    /\ forfeitTimers = {}
    /\ botMoveTimers = {}
    /\ conns = [c \in ConnIDs |-> "open"]
    /\ leaderboard = <<>>
    /\ audit = <<>>
    /\ now = ReconnectSecs
    /\ fresh = [player |-> 2, game |-> 1, timer |-> 1]
    /\ reply = [op |-> "none"]
    /\ bd = CreateBoard
    /\ res = NoRes

RaceUnchanged ==
    UNCHANGED <<waitingPlayers, botTimers, matchTimers, forfeitTimers, botMoveTimers,
                conns, now, fresh, reply, bd, res>>

\* Manager.MakeMove / Manager.BotMakeMove: the lookup of the session.  The
\* bot's call is made by bot Player.MakeMove with the column it chose.
MoveLookup ==
    LET g == goroutines.move
    IN /\ g.pc = "lookup"
       /\ goroutines' =
             [goroutines EXCEPT !.move =
                 IF RaceGameID \notin DOMAIN games THEN [g EXCEPT !.pc = "done"]
                 ELSE IF g.bot
                 THEN [g EXCEPT !.pc = "check",
                                !.column = BotColumn(RaceGame.Board, RaceGame.Player1.ID)]
                 ELSE [g EXCEPT !.pc = "check"]]
       /\ UNCHANGED <<games, reconnectWindows, leaderboard, audit>>
       /\ RaceUnchanged

\* The reads that validate the request: Status, the side to move and its
\* connection, the column.
MoveCheck ==
    LET g == goroutines.move
        game == RaceGame
        player == IF game.CurrentPlayer = game.Player1.ID
                  THEN game.Player1 ELSE game.Player2
        ok == IF g.bot
              THEN game.Status = "active" /\ game.CurrentPlayer = "bot"
              ELSE /\ game.Status = "active"
                   /\ ~player.IsBot
                   /\ player.Conn = g.conn
                   /\ ~(g.column < 0 \/ g.column >= 7)
    IN /\ g.pc = "check"
       /\ goroutines' = [goroutines EXCEPT !.move.pc = IF ok THEN "place" ELSE "done"]
       /\ UNCHANGED <<games, reconnectWindows, leaderboard, audit>>
       /\ RaceUnchanged

\* logic MakeMove on the session's board, and the move appended to the log.
MovePlace ==
    LET g == goroutines.move
        game == RaceGame
        side == IF g.bot THEN "bot" ELSE game.CurrentPlayer
        moveResult == MakeMove(game.Board, g.column, side)
    IN /\ g.pc = "place"
       /\ IF ~moveResult.Success
          THEN RaceStep("move", [g EXCEPT !.pc = "done"],
                        [game EXCEPT !.Board = moveResult.Board])
          ELSE RaceStep("move", [g EXCEPT !.pc = "finish", !.row = moveResult.Row],
                        [game EXCEPT !.Board = moveResult.Board,
                                     !.Moves = Append(@, [Player |-> side,
                                                          Column |-> g.column,
                                                          Row |-> moveResult.Row])])
       /\ UNCHANGED <<reconnectWindows, leaderboard, audit>>
       /\ RaceUnchanged

\* The win and draw checks, and the writes of Status, Winner and EndedAt or
\* of CurrentPlayer.
MoveFinish ==
    LET g == goroutines.move
        game == RaceGame
        after == IF g.bot THEN BotFinishOrSwitch(game, g.row, g.column, now)
                 ELSE FinishOrSwitch(game, g.row, g.column, now)
        finishes == CheckWin(game.Board, g.row, g.column).Won \/ IsBoardFull(game.Board)
    IN /\ g.pc = "finish"
       /\ RaceStep("move",
                   [g EXCEPT !.pc = IF finishes THEN "settle"
                                    ELSE IF g.bot THEN "done" ELSE "save",
                             !.transitioned = finishes],
                   after)
       /\ UNCHANGED <<reconnectWindows, leaderboard, audit>>
       /\ RaceUnchanged

\* m.UpdateLeaderboard(game) of the move.
MoveSettle ==
    LET g == goroutines.move
    IN /\ g.pc = "settle"
       /\ leaderboard' = UpdateLeaderboard(leaderboard, RaceGame)
       /\ audit' = Audited(audit, RaceGameID, "move", RaceGame, 0,
                           IF RaceGame.Status = "finished" THEN 1 ELSE 0)
       /\ goroutines' = [goroutines EXCEPT !.move.pc = IF g.bot THEN "done" ELSE "save"]
       /\ UNCHANGED <<games, reconnectWindows>>
       /\ RaceUnchanged

\* Server.handleMakeMove after a successful Manager.MakeMove: SaveGame when
\* the session it got back is finished.
MoveSave ==
    /\ goroutines.move.pc = "save"
    /\ audit' = SaveGame(audit, RaceGameID, RaceGame)
    /\ goroutines' = [goroutines EXCEPT !.move.pc = "done"]
    /\ UNCHANGED <<games, reconnectWindows, leaderboard>>
    /\ RaceUnchanged

\* Manager.ForfeitGame: the lookup and the read of Status.
ForfeitCheck ==
    LET g == goroutines.forfeit
    IN /\ g.pc = "check"
       /\ goroutines' =
             [goroutines EXCEPT !.forfeit.pc =
                 IF RaceGameID \notin DOMAIN games \/ RaceGame.Status # "active"
                 THEN "done" ELSE "finish"]
       /\ UNCHANGED <<games, reconnectWindows, leaderboard, audit>>
       /\ RaceUnchanged

\* The writes of Status, EndedAt and Winner.
ForfeitFinish ==
    LET g == goroutines.forfeit
        game == RaceGame
        winner == IF game.Player1.ID = g.playerID
                  THEN IF game.Player2.IsBot THEN "bot" ELSE game.Player2.ID
                  ELSE game.Player1.ID
    IN /\ g.pc = "finish"
       /\ RaceStep("forfeit", [g EXCEPT !.pc = "save", !.transitioned = TRUE],
                   [game EXCEPT !.Status = "finished", !.EndedAt = now,
                                !.Winner = winner])
       /\ UNCHANGED <<reconnectWindows, leaderboard, audit>>
       /\ RaceUnchanged

\* m.SaveGame(game) of the forfeit.
ForfeitSave ==
    /\ goroutines.forfeit.pc = "save"
    /\ audit' = SaveGame(audit, RaceGameID, RaceGame)
    /\ goroutines' = [goroutines EXCEPT !.forfeit.pc = "settle"]
    /\ UNCHANGED <<games, reconnectWindows, leaderboard>>
    /\ RaceUnchanged

\* m.UpdateLeaderboard(game) of the forfeit.
ForfeitSettle ==
    /\ goroutines.forfeit.pc = "settle"
    /\ leaderboard' = UpdateLeaderboard(leaderboard, RaceGame)
    /\ audit' = Audited(audit, RaceGameID, "forfeit", RaceGame, 0,
                        IF RaceGame.Status = "finished" THEN 1 ELSE 0)
    /\ goroutines' = [goroutines EXCEPT !.forfeit.pc = "delete"]
    /\ UNCHANGED <<games, reconnectWindows>>
    /\ RaceUnchanged

\* The session and its window deleted from the Manager's maps.
ForfeitDelete ==
    /\ goroutines.forfeit.pc = "delete"
    /\ games' = Delete(games, RaceGameID)
    /\ reconnectWindows' = Delete(reconnectWindows, RaceGameID)
    /\ goroutines' = [goroutines EXCEPT !.forfeit.pc = "done", !.unlinked = RaceGame]
    /\ UNCHANGED <<leaderboard, audit>>
    /\ RaceUnchanged

RaceNext ==
    \/ MoveLookup
    \/ MoveCheck
    \/ MovePlace
    \/ MoveFinish
    \/ MoveSettle
    \/ MoveSave
    \/ ForfeitCheck
    \/ ForfeitFinish
    \/ ForfeitSave
    \/ ForfeitSettle
    \/ ForfeitDelete

SpecRace == RaceInit /\ [][RaceNext]_vars

\* C1: a move and a forfeit of one session that run at once never both
\* observe Status = "active" and both write "finished", and
\* UpdateLeaderboard runs at most once on the session.
C1_OneTransition ==
    /\ ~(goroutines.move.transitioned /\ goroutines.forfeit.transitioned)
    /\ \A g \in DOMAIN audit : audit[g].settles <= 1

\* C1: both calls are over, and one of them finished the session.
C1_Witness ==
    /\ goroutines.move.pc = "done"
    /\ goroutines.forfeit.pc = "done"
    /\ goroutines.move.transitioned \/ goroutines.forfeit.transitioned

(***************************************************************************)
(* SpecBoard: the board engine under drops by either side, from the empty  *)
(* board.                                                                  *)
(***************************************************************************)
\* At most this many pieces are dropped.
MaxDrops == 7
\* The columns and sides the drops are drawn from.
DropCols == {-1, 0, 3, COLS - 1, COLS}
DropSides == {"p1", "p2"}

BoardInit ==
    /\ bd = CreateBoard
    /\ res = NoRes
    /\ ServerInit

Drop(column, playerID) ==
    LET m == MakeMove(bd, column, playerID)
    IN /\ (m.Success => PieceCount(bd) < MaxDrops)
       /\ bd' = m.Board
       /\ res' = [op |-> "drop", column |-> column, playerID |-> playerID,
                  Success |-> m.Success, Message |-> m.Message, Row |-> m.Row]
       /\ UNCHANGED serverVars

BoardNext == \E column \in DropCols, playerID \in DropSides : Drop(column, playerID)

SpecBoard == BoardInit /\ [][BoardNext]_vars


\* C9: no column ever holds more than ROWS pieces, and a drop into a column
\* that already holds ROWS pieces fails with "Column is full" and leaves every
\* cell of the board unchanged; a successful drop adds one piece to its column.
C9_FullColumnRejected ==
    [][ /\ \A c \in Cols : ColumnCount(bd', c) <= ROWS
        /\ res'.op = "drop" /\ res'.column \in Cols /\ ColumnCount(bd, res'.column) = ROWS
              => /\ ~res'.Success
                 /\ res'.Message = "Column is full"
                 /\ bd' = bd
        /\ res'.op = "drop" /\ res'.Success /\ res' # res
              => /\ ColumnCount(bd, res'.column) < ROWS
                 /\ PieceCount(bd') = PieceCount(bd) + 1
                 /\ ColumnCount(bd', res'.column) = ColumnCount(bd, res'.column) + 1
      ]_vars

\* A drop into a full column (ROWS pieces) was just rejected.
C9_Witness ==
    /\ res.op = "drop"
    /\ ~res.Success
    /\ res.Message = "Column is full"
    /\ ColumnCount(bd, res.column) = ROWS
    /\ PieceCount(bd) > ROWS

(***************************************************************************)
(* SpecWin: CheckWin applied at every position of a board.  The boards are *)
(* every colouring, by empty / side 1 / side 2, of one full line of the    *)
(* grid (a row, a column or a diagonal of either direction), the rest of   *)
(* the grid empty.                                                         *)
(***************************************************************************)
CellValues == {Nil, "p1", "p2"}
Axes == {<<0, 1>>, <<1, 0>>, <<1, 1>>, <<1, -1>>}

\* The cells a line starts from: those with no predecessor on the grid.
LineStarts ==
    {l \in Rows \X Cols \X Axes : ~InBounds(l[1] - l[3][1], l[2] - l[3][2])}

LineBoard(l, f) ==
    [r \in Rows |-> [c \in Cols |->
        IF \E i \in 0 .. (COLS - 1) : r = l[1] + i * l[3][1] /\ c = l[2] + i * l[3][2]
        THEN f[CHOOSE i \in 0 .. (COLS - 1) :
                   r = l[1] + i * l[3][1] /\ c = l[2] + i * l[3][2]]
        ELSE Nil]]

LineBoardsFrom(starts) == {LineBoard(l, f) : l \in starts, f \in [0 .. (COLS - 1) -> CellValues]}

WinInit ==
    /\ bd \in LineBoardsFrom(LineStarts)
    /\ res = NoRes
    /\ ServerInit

CheckAll ==
    /\ res = NoRes
    /\ res' = [op |-> "checkWin",
               Won |-> [r \in Rows |-> [c \in Cols |-> CheckWin(bd, r, c).Won]]]
    /\ bd' = bd
    /\ UNCHANGED serverVars

WinNext == CheckAll

SpecWin == WinInit /\ [][WinNext]_vars

\* Some axis has WIN_LENGTH contiguous cells of the side at (row, col), the
\* cell (row, col) among them.
HasFour(board, row, col) ==
    /\ board[row][col] # Nil
    /\ \E d \in Axes, k \in 0 .. (WIN_LENGTH - 1) :
          \A i \in 0 .. (WIN_LENGTH - 1) :
              LET r == row + (i - k) * d[1]
                  c == col + (i - k) * d[2]
              IN InBounds(r, c) /\ board[r][c] = board[row][col]

\* C10: CheckWin(board, row, col) is Won exactly when the cell is non-empty
\* and some axis has 4 or more contiguous cells of its side through it; it is
\* false for an empty cell.
C10_CheckWinIffFour ==
    res.op = "checkWin" =>
        \A r \in Rows, c \in Cols :
            /\ res.Won[r][c] <=> HasFour(bd, r, c)
            /\ bd[r][c] = Nil => ~res.Won[r][c]

\* CheckWin was applied to a board with four in a row on an anti-diagonal,
\* which also holds a piece that is in no four and an empty cell.
C10_Witness ==
    /\ res.op = "checkWin"
    /\ \E r \in Rows, c \in Cols :
          /\ res.Won[r][c]
          /\ checkDirection(bd, r, c, 1, -1, bd[r][c])
    /\ \E r \in Rows, c \in Cols : bd[r][c] # Nil /\ ~res.Won[r][c]

(***************************************************************************)
(* Claims about the sessions (Spec, SpecPlay, SpecRace).                   *)
(***************************************************************************)
\* The participant of a session whose ID is the turn token.
SideToMove(game) == {p \in {game.Player1, game.Player2} : p.ID = game.CurrentPlayer}

\* No call of a Manager operation is under way.
Quiescent ==
    \/ DOMAIN goroutines = {}
    \/ goroutines.move.pc = "done" /\ goroutines.forfeit.pc = "done"

\* C2: a finished session stays as it is: Status never changes again, and a
\* later MakeMove, BotMakeMove or ForfeitGame on it changes neither its
\* Status, Winner, Board and move log nor the leaderboard.
C2_FinishedIsFinal ==
    [][/\ \A g \in DOMAIN games : games[g].Status = "finished" <=> g \in DOMAIN audit
       /\ \A g \in DOMAIN audit :
             /\ g \in DOMAIN audit'
             /\ audit'[g].settles = audit[g].settles
             /\ DOMAIN audit' = DOMAIN audit => leaderboard' = leaderboard
             /\ IF g \in DOMAIN games
                THEN /\ g \in DOMAIN games'
                     /\ games'[g].Status = "finished"
                     /\ games'[g].Winner = games[g].Winner
                     /\ games'[g].Board = games[g].Board
                     /\ games'[g].Moves = games[g].Moves
                     /\ \A conn \in ConnIDs, column \in -1 .. COLS :
                           ManagerMakeMove(games, g, column, conn, now) =
                              MoveFailure(games, "Game is not active")
                     /\ \A column \in Cols :
                           BotMakeMove(games, g, column, now) = MoveFailure(games, "")
                     /\ \A p \in {games[g].Player1.ID, games[g].Player2.ID} :
                           ~ForfeitGame(games, g, p, now).Forfeited
                ELSE g \notin DOMAIN games'
      ]_vars

\* C2: the forfeit timer has fired on a session that a move had finished,
\* while the session's reconnect window was still there.
C2_Witness ==
    /\ reply.op = "forfeitTimer"
    /\ \E g \in DOMAIN games \cap DOMAIN reconnectWindows :
          games[g].Status = "finished" /\ audit[g].by = "move"

\* What one finished session adds to the row of username u: for each human
\* participant of that name one game, and one win, loss or draw.
RowOf(game, u) ==
    LET Counts(p) ==
            IF p.IsBot \/ p.Username # u THEN NoRow
            ELSE [wins |-> IF game.Winner = p.ID THEN 1 ELSE 0,
                  losses |-> IF game.Winner # p.ID /\ game.Winner # "draw" THEN 1 ELSE 0,
                  draws |-> IF game.Winner = "draw" THEN 1 ELSE 0,
                  total_games |-> 1]
        a == Counts(game.Player1)
        b == Counts(game.Player2)
    IN [wins |-> a.wins + b.wins, losses |-> a.losses + b.losses,
        draws |-> a.draws + b.draws, total_games |-> a.total_games + b.total_games]

HumanNames(game) == {p.Username : p \in {q \in {game.Player1, game.Player2} : ~q.IsBot}}

\* The leaderboard after each finished session of S is settled once.
RECURSIVE SettledOnce(_, _)
SettledOnce(a, S) ==
    IF S = {} THEN <<>>
    ELSE LET g == CHOOSE x \in S : TRUE
             rest == SettledOnce(a, S \ {g})
             game == a[g].game
         IN [u \in DOMAIN rest \cup HumanNames(game) |->
                LET old == IF u \in DOMAIN rest THEN rest[u] ELSE NoRow
                    new == RowOf(game, u)
                IN [wins |-> old.wins + new.wins,
                    losses |-> old.losses + new.losses,
                    draws |-> old.draws + new.draws,
                    total_games |-> old.total_games + new.total_games]]

\* C3: once the calls on it are over, every finished session has been
\* settled exactly once: the leaderboard holds, for each human participant,
\* one game and one win, loss or draw per finished session, and nothing for
\* the bot.
C3_SettledOncePerSession ==
    Quiescent =>
       /\ \A g \in DOMAIN audit : audit[g].settles = 1
       /\ DOMAIN leaderboard = DOMAIN SettledOnce(audit, DOMAIN audit)
       /\ \A u \in DOMAIN leaderboard :
             leaderboard[u] = SettledOnce(audit, DOMAIN audit)[u]

\* C4: every finished session has been handed to SaveGame exactly once.
C4_FinishedSavedOnce == \A g \in DOMAIN audit : audit[g].saves = 1

\* C5: no finished session is left in Manager.games.
C5_FinishedRemoved == \A g \in DOMAIN games : games[g].Status # "finished"

\* C6: a rejected move request names one of the five validation failures and
\* changes nothing: the sessions, the reconnect windows and the rest of the
\* server's state are as before it, so that the next request is served as if
\* the rejected one had never been made.
C6_RejectedMoveChangesNothing ==
    [][(reply'.op = "makeMove" /\ ~reply'.Success) =>
          /\ reply'.Message \in {"Game not found", "Game is not active",
                                 "Not your turn", "Invalid column", "Column is full"}
          /\ UNCHANGED <<games, reconnectWindows, waitingPlayers, botTimers,
                         matchTimers, forfeitTimers, botMoveTimers, conns,
                         leaderboard, audit, now, fresh>>
      ]_vars

\* C6: a drop into a full column has been rejected while the session had a
\* reconnect window.
C6_Witness ==
    /\ reply.op = "makeMove"
    /\ ~reply.Success
    /\ reply.Message = "Column is full"
    /\ reply.gameID \in DOMAIN reconnectWindows

\* C7: a move request places a piece only when it comes from the connection
\* bound to the participant whose ID is CurrentPlayer; a request on an
\* active session from any other connection, or on the bot's turn, is
\* answered "Not your turn" and changes no session.
C7_OnlyTheBoundConnectionMoves ==
    [][reply'.op = "makeMove" =>
          /\ \A g \in DOMAIN games \cap DOMAIN games' :
                games'[g].Board # games[g].Board =>
                   /\ g = reply'.gameID
                   /\ \E p \in SideToMove(games[g]) : ~p.IsBot /\ p.Conn = reply'.conn
          /\ \A g \in DOMAIN games :
                /\ g = reply'.gameID
                /\ games[g].Status = "active"
                /\ ~\E p \in SideToMove(games[g]) : ~p.IsBot /\ p.Conn = reply'.conn
                => /\ ~reply'.Success
                   /\ reply'.Message = "Not your turn"
                   /\ games' = games
      ]_vars

\* C7: the connection of player 2, who has player 1's username, was told
\* "Not your turn" on player 1's turn.
C7_Witness ==
    /\ reply.op = "makeMove"
    /\ reply.Message = "Not your turn"
    /\ \E g \in DOMAIN games :
          /\ g = reply.gameID
          /\ games[g].Status = "active"
          /\ games[g].CurrentPlayer = games[g].Player1.ID
          /\ games[g].Player1.Username = games[g].Player2.Username
          /\ games[g].Player2.Conn = reply.conn
          /\ games[g].Player1.Conn # reply.conn
          /\ Len(games[g].Moves) > 0

\* C8: a move that is placed finishes the session with its mover as Winner
\* exactly when the placed piece lies on four or more contiguous cells of
\* the mover's; else with Winner "draw" when the board is full; else the
\* session stays active with the other side to move.
C8_WinDrawOrContinue ==
    [][\A g \in DOMAIN games \cap DOMAIN games' :
          Len(games'[g].Moves) = Len(games[g].Moves) + 1 =>
             LET before == games[g]
                 after == games'[g]
                 m == after.Moves[Len(after.Moves)]
                 mover == before.CurrentPlayer
             IN /\ before.Status = "active"
                /\ m.Player = mover
                /\ after.Board[m.Row][m.Column] = mover
                /\ IF HasFour(after.Board, m.Row, m.Column)
                   THEN after.Status = "finished" /\ after.Winner = mover
                   ELSE IF \A r \in Rows, c \in Cols : after.Board[r][c] # Nil
                   THEN after.Status = "finished" /\ after.Winner = "draw"
                   ELSE /\ after.Status = "active"
                        /\ after.Winner = ""
                        /\ after.CurrentPlayer # mover
                        /\ after.CurrentPlayer \in {after.Player1.ID, after.Player2.ID}
      ]_vars

\* C8: a session was won by the move that filled the last cell of the board.
C8_Witness ==
    \E g \in DOMAIN games :
       /\ games[g].Status = "finished"
       /\ games[g].Winner \in {games[g].Player1.ID, games[g].Player2.ID}
       /\ \A r \in Rows, c \in Cols : games[g].Board[r][c] # Nil

\* C3: a session was finished by a forfeit and settled, with two humans of
\* different usernames.
C3_Witness ==
    /\ Quiescent
    /\ \E g \in DOMAIN audit :
          /\ audit[g].by = "forfeit"
          /\ audit[g].settles = 1
          /\ Cardinality(DOMAIN leaderboard) = 2

(***************************************************************************)
(* SpecQueue: the matchmaking Service with two joins under way at once.    *)
(* The Service takes no lock: Server.handleJoin runs on the goroutine of   *)
(* its connection, the fallback callback on the goroutine of its timer,    *)
(* and Service.RemovePlayer on the goroutine of the connection that        *)
(* closed.  Each call is a sequence of steps, a step is one read or one    *)
(* write of waitingPlayers, botTimers or Manager.games, and the steps of   *)
(* the calls interleave in any order.                                      *)
(***************************************************************************)
\* The two participants that join, by player ID.
QueuePlayers ==
    [p \in {"p1", "p2"} |->
        IF p = "p1" THEN NewPlayer("p1", "alice", "c1", FALSE)
        ELSE NewPlayer("p2", "bob", "c2", FALSE)]
QueueIDs == DOMAIN QueuePlayers
QueueConns == {QueuePlayers[p].Conn : p \in QueueIDs}
PlayerOn(conn) == CHOOSE p \in QueueIDs : QueuePlayers[p].Conn = conn

\* The two join messages have arrived, on two connections; nothing has run.
QueueInit ==
    /\ goroutines =
          [join |-> [p \in QueueIDs |-> [pc |-> "len", seen |-> <<>>,
                                         matched |-> FALSE, opponent |-> ""]],
           timer |-> [p \in QueueIDs |-> [pc |-> "unarmed", seen |-> <<>>]],
           leave |-> [c \in QueueConns |-> [pc |-> "idle", seen |-> <<>>]]]
    /\ games = <<>>
    /\ reconnectWindows = <<>>
    /\ waitingPlayers = <<>>
    /\ botTimers = {}
    /\ matchTimers = {}
    /\ forfeitTimers = {}
    /\ botMoveTimers = {}
    /\ conns = [c \in ConnIDs |-> "open"]
    /\ leaderboard = <<>>
    /\ audit = <<>>
    /\ now = 0
    /\ fresh = [player |-> 2, game |-> 0, timer |-> 0]
    /\ reply = [op |-> "none"]
    /\ bd = CreateBoard
    /\ res = NoRes

QueueUnchanged ==
    UNCHANGED <<reconnectWindows, matchTimers, forfeitTimers, botMoveTimers,
                leaderboard, audit, now, reply, bd, res>>

\* Service.AddPlayer: len(s.waitingPlayers) > 0.
AddLen(p) ==
    /\ goroutines.join[p].pc = "len"
    /\ goroutines' = [goroutines EXCEPT !.join[p].pc =
                         IF Len(waitingPlayers) > 0 THEN "head" ELSE "read"]
    /\ UNCHANGED <<games, waitingPlayers, botTimers, fresh, conns>>
    /\ QueueUnchanged

\* opponent := s.waitingPlayers[0]; the index is out of range when the
\* queue has been emptied since, and the goroutine panics.
AddHead(p) ==
    /\ goroutines.join[p].pc = "head"
    /\ goroutines' = [goroutines EXCEPT !.join[p] =
                         IF Len(waitingPlayers) = 0 THEN [@ EXCEPT !.pc = "panicked"]
                         ELSE [@ EXCEPT !.pc = "tail",
                                        !.opponent = waitingPlayers[1].ID]]
    /\ UNCHANGED <<games, waitingPlayers, botTimers, fresh, conns>>
    /\ QueueUnchanged

\* s.waitingPlayers = s.waitingPlayers[1:], and the matched result.
AddTail(p) ==
    /\ goroutines.join[p].pc = "tail"
    /\ IF Len(waitingPlayers) = 0
       THEN /\ goroutines' = [goroutines EXCEPT !.join[p].pc = "panicked"]
            /\ UNCHANGED waitingPlayers
       ELSE /\ goroutines' = [goroutines EXCEPT !.join[p].pc = "create",
                                                !.join[p].matched = TRUE]
            /\ waitingPlayers' = Tail(waitingPlayers)
    /\ UNCHANGED <<games, botTimers, fresh, conns>>
    /\ QueueUnchanged

\* append(s.waitingPlayers, player): the read of the slice.
AddRead(p) ==
    /\ goroutines.join[p].pc = "read"
    /\ goroutines' = [goroutines EXCEPT !.join[p].pc = "write",
                                        !.join[p].seen = waitingPlayers]
    /\ UNCHANGED <<games, waitingPlayers, botTimers, fresh, conns>>
    /\ QueueUnchanged

\* s.waitingPlayers = the slice read, with the player appended; the waiting
\* result.
AddWrite(p) ==
    /\ goroutines.join[p].pc = "write"
    /\ waitingPlayers' = Append(goroutines.join[p].seen, QueuePlayers[p])
    /\ goroutines' = [goroutines EXCEPT !.join[p].pc = "arm"]
    /\ UNCHANGED <<games, botTimers, fresh, conns>>
    /\ QueueUnchanged

\* Server.handleJoin with a matched result: Manager.CreateGame.
JoinCreate(p) ==
    /\ goroutines.join[p].pc = "create"
    /\ fresh.game < Len(GameIDSeq)
    /\ games' = Put(games, GameIDSeq[fresh.game + 1],
                    CreateGame(QueuePlayers[goroutines.join[p].opponent],
                               QueuePlayers[p]))
    /\ fresh' = [fresh EXCEPT !.game = @ + 1]
    /\ goroutines' = [goroutines EXCEPT !.join[p].pc = "done"]
    /\ UNCHANGED <<waitingPlayers, botTimers, conns>>
    /\ QueueUnchanged

\* Server.handleJoin with a waiting result: Service.ScheduleBotMatch arms
\* the timer and stores it in botTimers.
JoinArm(p) ==
    /\ goroutines.join[p].pc = "arm"
    /\ botTimers' = botTimers \cup {p}
    /\ goroutines' = [goroutines EXCEPT !.join[p].pc = "done",
                                        !.timer[p].pc = "armed"]
    /\ UNCHANGED <<games, waitingPlayers, fresh, conns>>
    /\ QueueUnchanged

\* The timer of p expires: its function starts on a goroutine of its own.
TimerExpire(p) ==
    /\ goroutines.timer[p].pc = "armed"
    /\ goroutines' = [goroutines EXCEPT !.timer[p].pc = "check"]
    /\ UNCHANGED <<games, waitingPlayers, botTimers, fresh, conns>>
    /\ QueueUnchanged

\* s.isPlayerWaiting(player.ID).
TimerCheck(p) ==
    /\ goroutines.timer[p].pc = "check"
    /\ goroutines' = [goroutines EXCEPT !.timer[p].pc =
                         IF isPlayerWaiting(waitingPlayers, p)
                         THEN "filter" ELSE "done"]
    /\ UNCHANGED <<games, waitingPlayers, botTimers, fresh, conns>>
    /\ QueueUnchanged

\* s.removeWaitingPlayer(player.ID): the loop over the slice.
TimerFilter(p) ==
    /\ goroutines.timer[p].pc = "filter"
    /\ goroutines' = [goroutines EXCEPT
                         !.timer[p].pc = "write",
                         !.timer[p].seen = removeWaitingPlayer(waitingPlayers, p)]
    /\ UNCHANGED <<games, waitingPlayers, botTimers, fresh, conns>>
    /\ QueueUnchanged

\* s.waitingPlayers = newWaiting.
TimerWrite(p) ==
    /\ goroutines.timer[p].pc = "write"
    /\ waitingPlayers' = goroutines.timer[p].seen
    /\ goroutines' = [goroutines EXCEPT !.timer[p].pc = "delete"]
    /\ UNCHANGED <<games, botTimers, fresh, conns>>
    /\ QueueUnchanged

\* delete(s.botTimers, player.ID).
TimerDelete(p) ==
    /\ goroutines.timer[p].pc = "delete"
    /\ botTimers' = botTimers \ {p}
    /\ goroutines' = [goroutines EXCEPT !.timer[p].pc = "callback"]
    /\ UNCHANGED <<games, waitingPlayers, fresh, conns>>
    /\ QueueUnchanged

\* callback(player): Manager.CreateGame against the bot.
TimerCallback(p) ==
    /\ goroutines.timer[p].pc = "callback"
    /\ fresh.game < Len(GameIDSeq)
    /\ games' = Put(games, GameIDSeq[fresh.game + 1],
                    CreateGame(QueuePlayers[p], NewPlayer("bot", "Bot", NoConn, TRUE)))
    /\ fresh' = [fresh EXCEPT !.game = @ + 1]
    /\ goroutines' = [goroutines EXCEPT !.timer[p].pc = "done"]
    /\ UNCHANGED <<waitingPlayers, botTimers, conns>>
    /\ QueueUnchanged

\* The connection closes once its join has been handled (the read loop of
\* Server.handleWebSocket).  Service.RemovePlayer: the loop over the slice.
LeaveFilter(conn) ==
    /\ goroutines.leave[conn].pc = "idle"
    /\ goroutines.join[PlayerOn(conn)].pc = "done"
    /\ conns' = [conns EXCEPT ![conn] = "closed"]
    /\ goroutines' = [goroutines EXCEPT
                         !.leave[conn].pc = "write",
                         !.leave[conn].seen = RemovePlayer(waitingPlayers, conn)]
    /\ UNCHANGED <<games, waitingPlayers, botTimers, fresh>>
    /\ QueueUnchanged

\* s.waitingPlayers = newWaiting.
LeaveWrite(conn) ==
    /\ goroutines.leave[conn].pc = "write"
    /\ waitingPlayers' = goroutines.leave[conn].seen
    /\ goroutines' = [goroutines EXCEPT !.leave[conn].pc = "timers"]
    /\ UNCHANGED <<games, botTimers, fresh, conns>>
    /\ QueueUnchanged

\* The loop over botTimers: the timers of the players that are not waiting,
\* or wait on this connection, are stopped and deleted.  Stop keeps a timer
\* that has not expired from firing.
LeaveTimers(conn) ==
    /\ goroutines.leave[conn].pc = "timers"
    /\ LET stopped == {id \in botTimers :
                          \/ ~isPlayerWaiting(waitingPlayers, id)
                          \/ QueuePlayers[id].Conn = conn}
       IN /\ botTimers' = botTimers \ stopped
          /\ goroutines' =
                [goroutines EXCEPT
                    !.leave[conn].pc = "done",
                    !.timer = [p \in QueueIDs |->
                                  IF p \in stopped /\ @[p].pc = "armed"
                                  THEN [@[p] EXCEPT !.pc = "stopped"]
                                  ELSE @[p]]]
    /\ UNCHANGED <<games, waitingPlayers, fresh, conns>>
    /\ QueueUnchanged

QueueNext ==
    \/ \E p \in QueueIDs :
          \/ AddLen(p)
          \/ AddHead(p)
          \/ AddTail(p)
          \/ AddRead(p)
          \/ AddWrite(p)
          \/ JoinCreate(p)
          \/ JoinArm(p)
          \/ TimerExpire(p)
          \/ TimerCheck(p)
          \/ TimerFilter(p)
          \/ TimerWrite(p)
          \/ TimerDelete(p)
          \/ TimerCallback(p)
    \/ \E conn \in QueueConns :
          \/ LeaveFilter(conn)
          \/ LeaveWrite(conn)
          \/ LeaveTimers(conn)

SpecQueue == QueueInit /\ [][QueueNext]_vars

\* Both joins have been handled, no fallback timer has expired and no
\* connection has closed.
BothJoined ==
    /\ \A p \in QueueIDs : goroutines.join[p].pc \in {"done", "panicked"}
    /\ \A p \in QueueIDs : goroutines.timer[p].pc \in {"unarmed", "armed"}
    /\ \A c \in QueueConns : goroutines.leave[c].pc = "idle"

\* C11: when two joins arrive at an empty queue at once, exactly one
\* AddPlayer returns Matched = true, pairing the two participants in one
\* session, the other one returns waiting, and the queue is empty afterwards.
C11_OnePairing ==
    BothJoined =>
        /\ Cardinality({p \in QueueIDs : goroutines.join[p].matched}) = 1
        /\ waitingPlayers = <<>>
        /\ \E g \in DOMAIN games :
              {games[g].Player1.ID, games[g].Player2.ID} = QueueIDs

\* C11: both joins have been handled and nothing else has run.
C11_Witness == BothJoined

\* The sessions of gs the participant p is in.
SessionsOf(gs, p) ==
    {g \in DOMAIN gs : p \in {gs[g].Player1.ID, gs[g].Player2.ID}}

\* Service.RemovePlayer has returned for the connection of p.
Withdrawn(p) == goroutines.leave[QueuePlayers[p].Conn].pc = "done"

\* C12: the fallback and the pairing exclude each other under every
\* interleaving: a session is only created for participants that are in no
\* session yet, and a session against the bot is not created for a
\* participant that has been withdrawn.
C12_FallbackOrPairing ==
    [][\A g \in DOMAIN games' \ DOMAIN games :
          \A p \in QueueIDs :
             p \in {games'[g].Player1.ID, games'[g].Player2.ID} =>
                /\ SessionsOf(games, p) = {}
                /\ games'[g].Player2.IsBot => ~Withdrawn(p)]_vars

\* C12: the timer of a participant has expired and run to its end, and the
\* participant is in a session with the other human.
C12_Witness ==
    \E p \in QueueIDs :
       /\ goroutines.timer[p].pc = "done"
       /\ \E g \in SessionsOf(games, p) : ~games[g].Player2.IsBot

(***************************************************************************)
(* SpecFallback: matchmaking alone.  Joins, the fallback timers,           *)
(* connections that close, and the function of a fallback timer run when   *)
(* its timer is no longer armed: a second firing, or the firing of a timer *)
(* that had expired when RemovePlayer stopped it.                          *)
(***************************************************************************)
\* The players handleJoin has created so far.
IssuedPlayers ==
    UNION {{NewPlayer(PlayerIDSeq[i], u, JoinSeq[i].conn, FALSE) :
               u \in JoinSeq[i].names} : i \in 1 .. fresh.player}

\* The players that wait or are in a session.
SeatedPlayers ==
    {waitingPlayers[i] : i \in 1 .. Len(waitingPlayers)}
    \cup {games[g].Player1 : g \in DOMAIN games}
    \cup {games[g].Player2 : g \in DOMAIN games}

\* The function of the fallback timer of `player` runs though the timer is
\* not armed any more.
StrayCallback(player) ==
    /\ player \in IssuedPlayers
    /\ \A q \in matchTimers : q.ID # player.ID
    /\ \A q \in SeatedPlayers : q.ID = player.ID => q.Username = player.Username
    /\ UNCHANGED matchTimers
    /\ FallbackCallback(player)

NextFallback ==
    \/ \E conn \in ConnIDs, username \in Usernames :
          JoinAllowed(conn, username) /\ HandleJoin(conn, username)
    \/ \E player \in matchTimers : MatchTimerFire(player)
    \/ \E player \in IssuedPlayers : StrayCallback(player)
    \/ \E conn \in ConnIDs : Disconnect(conn)

SpecFallback == Init /\ [][NextFallback]_vars

\* The fallback timers fire: time.AfterFunc runs the function of every timer
\* that is not stopped.
SpecFallbackFair ==
    SpecFallback /\ WF_vars(\E player \in matchTimers : MatchTimerFire(player))

PlayerIDs == {PlayerIDSeq[i] : i \in 1 .. Len(PlayerIDSeq)}

\* The sessions of gs in which the participant id plays the bot.
BotSessionsOf(gs, id) ==
    {g \in DOMAIN gs : gs[g].Player1.ID = id /\ gs[g].Player2.IsBot}

\* C13: a participant that waits leaves the queue eventually; when the
\* function of its fallback timer runs while it waits, exactly one session
\* against the bot is created for it; when the function runs for a
\* participant that does not wait (a second firing) no session is created;
\* no participant is ever in two sessions.
C13_OneFallbackSession ==
    /\ [][\A player \in IssuedPlayers :
             MatchTimerFire(player) \/ StrayCallback(player) =>
                IF isPlayerWaiting(waitingPlayers, player.ID)
                THEN /\ SessionsOf(games, player.ID) = {}
                     /\ Cardinality(BotSessionsOf(games', player.ID)) = 1
                     /\ Cardinality(DOMAIN games') = Cardinality(DOMAIN games) + 1
                ELSE games' = games]_vars
    /\ [](\A id \in PlayerIDs : Cardinality(SessionsOf(games, id)) <= 1)
    /\ \A id \in PlayerIDs :
          isPlayerWaiting(waitingPlayers, id) ~> ~isPlayerWaiting(waitingPlayers, id)

\* C13: the timer of a participant has fired and the participant, still
\* connected, plays the bot.
C13_Witness ==
    /\ reply.op = "matchTimer"
    /\ \E g \in DOMAIN games :
          /\ games[g].Player2.IsBot
          /\ conns[games[g].Player1.Conn] = "open"
          /\ \A q \in matchTimers : q.ID # games[g].Player1.ID

\* C14: once RemovePlayer has run for a connection no waiting entry is bound
\* to it, and no session, with a later arrival or with the bot, is created
\* for a participant that was withdrawn from the queue.
C14_WithdrawnStaysOut ==
    [][/\ \A i \in 1 .. Len(waitingPlayers') :
             conns'[waitingPlayers'[i].Conn] = "open"
       /\ \A g \in DOMAIN games' \ DOMAIN games :
             /\ conns[games'[g].Player1.Conn] = "open"
             /\ ~games'[g].Player2.IsBot => conns[games'[g].Player2.Conn] = "open"]_vars

\* C14: the first participant was withdrawn while waiting, the second one
\* has joined since and waits, and a fallback function has just run.
C14_Witness ==
    /\ conns["c1"] = "closed"
    /\ games = <<>>
    /\ Len(waitingPlayers) = 1
    /\ waitingPlayers[1].ID = "p2"
    /\ reply.op = "matchTimer"

(***************************************************************************)
(* SpecReconnect: one session under way, whose participants' connections   *)
(* close and rejoin more than once while moves go on and time passes.      *)
(***************************************************************************)
\* At most MaxDisconnects connections close.
MaxDisconnects == 2

\* A session of RaceSessions is under way; the bot's pacing timer is armed
\* when the bot is to move.
ReconnectInit ==
    /\ \E session \in RaceSessions :
          /\ games = [g \in {RaceGameID} |-> session]
          /\ botMoveTimers = IF session.CurrentPlayer = "bot" THEN {RaceGameID} ELSE {}
          /\ botTimers = IF session.Player2.IsBot THEN {} ELSE {session.Player1.ID}
    /\ reconnectWindows = <<>>
    /\ waitingPlayers = <<>>
    /\ matchTimers = {}
    /\ forfeitTimers = {}
    /\ conns = [c \in ConnIDs |-> "open"]
    /\ leaderboard = <<>>
    /\ audit = <<>>
    /\ now = 0
    /\ fresh = [player |-> 2, game |-> 1, timer |-> 0]
    /\ reply = [op |-> "none"]
    /\ goroutines = <<>>
    /\ bd = CreateBoard
    /\ res = NoRes

NextReconnect ==
    \/ /\ Cardinality({c \in ConnIDs : conns[c] = "closed"}) < MaxDisconnects
       /\ \E conn \in ConnIDs : Disconnect(conn)
    \/ \E conn \in ConnIDs, username \in Usernames \cup {Outsider} :
          HandleRejoin(conn, username, RaceGameID)
    \/ \E timer \in forfeitTimers : ForfeitTimerFire(timer)
    \/ \E conn \in ConnIDs, column \in ColumnInputs(RaceGameID) :
          HandleMakeMove(conn, RaceGameID, column)
    \/ \E gameID \in botMoveTimers : BotMoveTimerFire(gameID)
    \/ TimePending /\ Tick

SpecReconnect == ReconnectInit /\ [][NextReconnect]_vars

\* The participant of `game` with the given ID.
PlayerByID(game, id) == IF game.Player1.ID = id THEN game.Player1 ELSE game.Player2

\* C15: once a participant that disconnected has rejoined, the forfeit timer
\* armed by that disconnect does not finish the session when it fires,
\* whatever happened in between.  (The participant the timer was armed for
\* is bound to an open connection only if RejoinGame rebound it after the
\* timer was armed.)
C15_RejoinCancelsForfeit ==
    [][\A timer \in forfeitTimers :
          /\ ForfeitTimerFire(timer)
          /\ timer.gameID \in DOMAIN games
          /\ conns[PlayerByID(games[timer.gameID], timer.playerID).Conn] = "open"
          => games' = games /\ audit' = audit /\ leaderboard' = leaderboard]_vars

\* C15: a participant has rejoined on the third connection and a forfeit
\* timer has fired since without finishing the session.
C15_Witness ==
    /\ reply.op = "forfeitTimer"
    /\ \E g \in DOMAIN games :
          /\ games[g].Status = "active"
          /\ "c3" \in {games[g].Player1.Conn, games[g].Player2.Conn}

(***************************************************************************)
(* Claims about rejoining, forfeiting and the session against the bot.     *)
(***************************************************************************)
RejoinNames == Usernames \cup {Outsider}

\* The connections the participants of the sessions are bound to.
Bindings(gs) == [g \in DOMAIN gs |-> <<gs[g].Player1.Conn, gs[g].Player2.Conn>>]

\* C16: a rejoin under a username of neither participant, while the window
\* of the session is open, is answered "Username does not match this game"
\* and changes nothing: the window, the bindings and the session stay, and
\* a rejoin under the username of the participant the window is for would
\* still succeed.
C16_WrongNameKeepsWindow ==
    [][\A conn \in ConnIDs, username \in RejoinNames, gameID \in GameIDInputs :
          /\ HandleRejoin(conn, username, gameID)
          /\ gameID \in DOMAIN games
          /\ gameID \in DOMAIN reconnectWindows
          /\ now <= reconnectWindows[gameID].ExpiresAt
          /\ username \notin {games[gameID].Player1.Username,
                              games[gameID].Player2.Username}
          => /\ reply' = [op |-> "rejoin", Success |-> FALSE,
                          Message |-> "Username does not match this game"]
             /\ UNCHANGED <<games, reconnectWindows, forfeitTimers, leaderboard, audit>>
             /\ RejoinOutcome(games', reconnectWindows',
                              PlayerByID(games[gameID],
                                         reconnectWindows[gameID].PlayerID).Username,
                              gameID, now') \in {"player1", "player2"}]_vars

\* C16: a rejoin has just been refused for its username while the window of
\* the session is open.
C16_Witness ==
    /\ reply.op = "rejoin"
    /\ reply.Message = "Username does not match this game"
    /\ \E g \in DOMAIN reconnectWindows :
          g \in DOMAIN games /\ now <= reconnectWindows[g].ExpiresAt

C19_WindowOnlyWhileActive ==
    \A g \in DOMAIN reconnectWindows :
       /\ g \in DOMAIN games
       /\ games[g].Status = "active"
       /\ reconnectWindows[g].PlayerID \in {games[g].Player1.ID, games[g].Player2.ID}
       /\ conns[PlayerByID(games[g], reconnectWindows[g].PlayerID).Conn] = "closed"

\* C20: a session against the bot has the human as player 1 and the bot as
\* player 2; before its first move it is active with an empty board and the
\* human to move; its first move is the human's.
C20_HumanMovesFirst ==
    \A g \in DOMAIN games :
       games[g].Player2.IsBot =>
          /\ ~games[g].Player1.IsBot
          /\ games[g].Player1.ID # "bot"
          /\ games[g].Player2 = NewPlayer("bot", "Bot", NoConn, TRUE)
          /\ IF games[g].Moves = <<>>
             THEN /\ games[g].Status = "active"
                  /\ games[g].Board = CreateBoard
                  /\ games[g].CurrentPlayer = games[g].Player1.ID
                  /\ g \notin botMoveTimers
             ELSE games[g].Moves[1].Player = games[g].Player1.ID

\* C20: the fallback timer has just created a session against the bot.
C20_Witness ==
    /\ reply.op = "matchTimer"
    /\ \E g \in DOMAIN games : games[g].Player2.IsBot /\ games[g].Moves = <<>>


(***************************************************************************)
(* Claims about the board under drops (SpecBoard).                         *)
(***************************************************************************)
\* C24: in every board reached from the empty board by drops, no occupied
\* cell has an empty cell below it in its column (the rows of larger index
\* are the lower ones).
C24_Gravity ==
    \A r \in Rows, c \in Cols :
        bd[r][c] # Nil => \A below \in Rows : below > r => bd[below][c] # Nil

\* Drops have stacked pieces of both sides in one column while another
\* column is still empty.
C24_Witness ==
    /\ res.op = "drop" /\ res.Success
    /\ \E c \in Cols : /\ ColumnCount(bd, c) >= 3
                       /\ \E r1, r2 \in Rows : /\ bd[r1][c] = "p1"
                                               /\ bd[r2][c] = "p2"
    /\ \E c \in Cols : ColumnCount(bd, c) = 0

\* C30: a successful drop into column c changes exactly one cell, the lowest
\* empty cell of column c, from empty to the mover's side, and returns that
\* cell's row; a failed drop (column out of range or full) changes no cell.
C30_DropChangesOneCell ==
    [][ \A column \in DropCols, playerID \in DropSides :
          Drop(column, playerID) =>
              IF res'.Success
              THEN /\ column \in Cols
                   /\ res'.Row \in Rows
                   /\ bd[res'.Row][column] = Nil
                   /\ \A r \in Rows : r > res'.Row => bd[r][column] # Nil
                   /\ bd'[res'.Row][column] = playerID
                   /\ \A r \in Rows, c \in Cols :
                          <<r, c>> # <<res'.Row, column>> => bd'[r][c] = bd[r][c]
              ELSE /\ column \notin Cols \/ ColumnCount(bd, column) = ROWS
                   /\ bd' = bd
      ]_vars

\* A drop has landed on top of other pieces, in a row above the bottom one,
\* on a board that holds pieces in other columns too.
C30_Witness ==
    /\ res.op = "drop" /\ res.Success
    /\ res.Row < ROWS - 1
    /\ bd[res.Row][res.column] = res.playerID
    /\ \E c \in Cols : c # res.column /\ ColumnCount(bd, c) > 0


(***************************************************************************)
(* SpecBot: the bot's choice of a column (bot Player.MakeMove) on boards   *)
(* built by placing pieces of the human side and of the bot in turn, the   *)
(* human side first; the bot chooses when it is its turn.                  *)
(***************************************************************************)
\* At most this many pieces are placed before the bot chooses.
MaxBotPieces == 7
\* The columns the pieces are placed in; the bot chooses among all columns.
BotCols == 2 .. 4
\* The human side of the session (Player1), which moves first.
BotOpponent == "p1"
BotToMove(board) == PieceCount(board) % 2 = 1

BotInit ==
    /\ bd = CreateBoard
    /\ res = NoRes
    /\ ServerInit

\* One more piece on the board.
Place(column) ==
    /\ PieceCount(bd) < MaxBotPieces
    /\ bd[0][column] = Nil
    /\ bd' = MakeMove(bd, column, IF BotToMove(bd) THEN BotID ELSE BotOpponent).Board
    /\ res' = NoRes
    /\ UNCHANGED serverVars

\* bot Player.MakeMove up to its call of executeMove: the column it passes.
Choose ==
    /\ res = NoRes
    /\ BotToMove(bd)
    /\ Len(GetValidMoves(bd)) # 0
    /\ res' = [op |-> "botMove", column |-> BotColumn(bd, BotOpponent)]
    /\ bd' = bd
    /\ UNCHANGED serverVars

BotNext ==
    \/ \E column \in BotCols : Place(column)
    \/ Choose

SpecBot == BotInit /\ [][BotNext]_vars

\* The legal columns of a board, the cell a piece dropped into a legal column
\* lands on, and the board after that drop.
Legal(board) == {c \in Cols : \E r \in Rows : board[r][c] = Nil}
LandingRow(board, c) ==
    CHOOSE r \in Rows : board[r][c] = Nil /\ \A below \in Rows : below > r => board[below][c] # Nil
After(board, c, side) == [board EXCEPT ![LandingRow(board, c)][c] = side]

\* The legal columns where a drop of side completes four in a row.
WinningColumns(board, side) ==
    {c \in Legal(board) : HasFour(After(board, c, side), LandingRow(board, c), c)}

\* The bot's score of a legal column and the columns of the highest score.
MoveScore(board, c, opponentID) ==
    EvaluatePosition(After(board, c, BotID), BotID, opponentID) + 5 * (3 - abs(c - 3))
TopScored(board, opponentID) ==
    LET scored == {<<c, MoveScore(board, c, opponentID)>> : c \in Legal(board)}
    IN {p[1] : p \in {q \in scored : \A o \in scored : q[2] >= o[2]}}

Leftmost(columns) == CHOOSE c \in columns : \A d \in columns : c <= d

BotSessionInit ==
    /\ games = [g \in {RaceGameID} |->
                   CreateGame(NewPlayer("p1", "alice", "c1", FALSE),
                              NewPlayer("bot", "Bot", NoConn, TRUE))]
    /\ botMoveTimers = {}
    /\ botTimers = {}
    /\ reconnectWindows = <<>>
    /\ waitingPlayers = <<>>
    /\ matchTimers = {}
    /\ forfeitTimers = {}
    /\ conns = [c \in ConnIDs |-> "open"]
    /\ leaderboard = <<>>
    /\ audit = <<>>
    /\ now = 0
    /\ fresh = [player |-> 1, game |-> 1, timer |-> 0]
    /\ reply = [op |-> "none"]
    /\ goroutines = <<>>
    /\ bd = CreateBoard
    /\ res = NoRes

\* The human plays on c1 and, after a rejoin, on c2.
BotSessionConns == {"c1", "c2"}

NextBotSession ==
    \/ \E conn \in BotSessionConns : Disconnect(conn)
    \/ \E username \in {"alice", Outsider} : HandleRejoin("c2", username, RaceGameID)
    \/ \E timer \in forfeitTimers : ForfeitTimerFire(timer)
    \/ \E conn \in BotSessionConns, column \in ColumnInputs(RaceGameID) :
          HandleMakeMove(conn, RaceGameID, column)
    \/ \E gameID \in botMoveTimers : BotMoveTimerFire(gameID)
    \/ TimePending /\ Tick

SpecBotSession == BotSessionInit /\ [][NextBotSession]_vars

\* The step every BotMoveTimerFire is, and no other action: an armed pacing
\* timer leaves botMoveTimers as its function runs.  It is enabled whenever
\* a timer is armed.
BotMoveTimerRuns ==
    \E gameID \in botMoveTimers :
        /\ botMoveTimers' = botMoveTimers \ {gameID}
        /\ reply' = [op |-> "botMove"]

\* time.AfterFunc runs the function of an armed timer.
SpecBotSessionFair == SpecBotSession /\ WF_botMoveTimers(BotMoveTimerRuns)

\* The bot is to move in the active session g.
BotTurn(gs, g) ==
    g \in DOMAIN gs /\ gs[g].Status = "active" /\ gs[g].CurrentPlayer = "bot"

\* C22: in a session against the bot, whenever the session is active with
\* CurrentPlayer = "bot" (which a human move has left it in) a bot move is
\* scheduled; when its timer fires Manager.BotMakeMove places a bot piece,
\* after which the turn is the human's or the session is finished; and the
\* session does not stay active with CurrentPlayer = "bot" forever: the bot
\* moves, or a forfeit finishes the session first.
C22_BotMovesEventually ==
    /\ [](\A g \in DOMAIN games : BotTurn(games, g) => g \in botMoveTimers)
    /\ [][ \A g \in DOMAIN games :
             BotTurn(games, g) /\ BotMoveTimerFire(g) =>
                 /\ Len(games'[g].Moves) = Len(games[g].Moves) + 1
                 /\ games'[g].Moves[Len(games'[g].Moves)].Player = "bot"
                 /\ PieceCount(games'[g].Board) = PieceCount(games[g].Board) + 1
                 /\ \/ games'[g].Status = "finished"
                    \/ /\ games'[g].Status = "active"
                       /\ games'[g].CurrentPlayer = games[g].Player1.ID
         ]_vars
    /\ [][ \A g \in DOMAIN games :
             ~BotTurn(games, g) /\ BotTurn(games', g) =>
                 /\ reply'.op = "makeMove" /\ reply'.Success
                 /\ games[g].Player2.IsBot
         ]_vars
    /\ \A g \in {RaceGameID} : BotTurn(games, g) ~> ~BotTurn(games, g)

\* The bot has answered the human's third move while the human's connection
\* was closed and its reconnect window open; the session goes on.
C22_Witness ==
    /\ reply.op = "botMove"
    /\ RaceGameID \in DOMAIN games
    /\ games[RaceGameID].Player2.IsBot
    /\ games[RaceGameID].Status = "active"
    /\ games[RaceGameID].CurrentPlayer = games[RaceGameID].Player1.ID
    /\ Len(games[RaceGameID].Moves) >= 6
    /\ RaceGameID \in DOMAIN reconnectWindows


(***************************************************************************)
(* Claims about the turn (SpecPlay).                                       *)
(***************************************************************************)
\* C23: in every reachable state of every session CurrentPlayer is
\* Player1.ID, Player2.ID or the token "bot", and it is "bot" only in a
\* session whose Player2 is the automated opponent.
C23_TurnIsAParticipant ==
    \A g \in DOMAIN games :
        /\ games[g].CurrentPlayer \in {games[g].Player1.ID, games[g].Player2.ID, "bot"}
        /\ games[g].CurrentPlayer = "bot" => games[g].Player2.IsBot

\* Two humans play and it is the second one's turn for the second time.
C23_Witness ==
    \E g \in DOMAIN games :
        /\ ~games[g].Player2.IsBot
        /\ games[g].Status = "active"
        /\ games[g].CurrentPlayer = games[g].Player2.ID
        /\ Len(games[g].Moves) = 3

\* The token of the side that makes the i-th move of a session whose first
\* move is player 1's and whose sides alternate.
SideOfMove(game, i) ==
    IF i % 2 = 1 THEN game.Player1.ID
    ELSE IF game.Player2.IsBot THEN "bot" ELSE game.Player2.ID

\* C27: in every session's move log the first move is Player1's and
\* consecutive moves are by different sides, and while the session is active
\* the turn is with the side that did not make the last move ("bot" when
\* that side is automated, Player1 after a move of the bot).
C27_SidesAlternate ==
    \A g \in DOMAIN games :
        /\ \A i \in 1 .. Len(games[g].Moves) :
              games[g].Moves[i].Player = SideOfMove(games[g], i)
        /\ \A i \in 1 .. (Len(games[g].Moves) - 1) :
              games[g].Moves[i].Player # games[g].Moves[i + 1].Player
        /\ games[g].Status = "active" =>
              games[g].CurrentPlayer = SideOfMove(games[g], Len(games[g].Moves) + 1)

\* In a session against the bot the bot has
\* moved twice and the turn is back with the human.
C27_Witness ==
    \E g \in DOMAIN games :
        /\ games[g].Player2.IsBot
        /\ games[g].Status = "active"
        /\ Len(games[g].Moves) = 4
        /\ games[g].Moves[4].Player = "bot"
        /\ games[g].CurrentPlayer = games[g].Player1.ID


(***************************************************************************)
(* Claims about the queue under atomic operations (SpecFallback).          *)
(***************************************************************************)
\* C25: with AddPlayer, RemovePlayer and the fallback timer's function each
\* run as one step, waitingPlayers never holds more than one participant:
\* an arrival that finds a participant waiting takes it from the queue and
\* is paired with it, and an arrival that finds the queue empty becomes its
\* only entry.
C25_AtMostOneWaiting ==
    /\ [](Len(waitingPlayers) <= 1)
    /\ [][ \A conn \in ConnIDs, username \in Usernames :
             JoinAllowed(conn, username) /\ HandleJoin(conn, username) =>
                IF Len(waitingPlayers) > 0
                THEN /\ waitingPlayers' = <<>>
                     /\ \E g \in DOMAIN games' \ DOMAIN games :
                           /\ DOMAIN games' = DOMAIN games \cup {g}
                           /\ games'[g].Player1 = Head(waitingPlayers)
                           /\ games'[g].Player2.Conn = conn
                           /\ games'[g].Player2.Username = username
                ELSE /\ Len(waitingPlayers') = 1
                     /\ waitingPlayers'[1].Conn = conn
                     /\ waitingPlayers'[1].Username = username
                     /\ games' = games
         ]_vars

\* The second arrival is the only waiting entry: the first one had left the
\* queue when it arrived.
C25_Witness ==
    /\ reply.op = "join"
    /\ fresh.player = 2
    /\ Len(waitingPlayers) = 1
    /\ waitingPlayers[1].ID = PlayerIDSeq[2]
    /\ games = <<>>


(***************************************************************************)
(* SpecBotCall: Manager.BotMakeMove called with any game ID and column on  *)
(* a session drawn from a family: sessions against the bot with the human  *)
(* or the bot to move, won, with a full column, one move from a draw, and  *)
(* a session of two humans.                                                *)
(***************************************************************************)
\* The session of alice against the bot after the first n columns of a game.
BotSessionAfter(columns, n) ==
    PlayedOut([g \in {RaceGameID} |->
                  CreateGame(NewPlayer("p1", "alice", "c1", FALSE),
                             NewPlayer("bot", "Bot", NoConn, TRUE))],
              SubSeq(columns, 1, n), 1)[RaceGameID]

\* The game the bot wins with its fourth move, and the game in which column
\* 3 is full when the bot is to move.
BotWinGame == <<0, 3, 3, 4, 0, 2, 6, 1>>
FullColumnGame == <<3, 3, 3, 3, 3, 3, 0>>

BotCallSessions ==
    {BotSessionAfter(BotWinGame, n) : n \in 0 .. Len(BotWinGame)}
    \cup {BotSessionAfter(FullColumnGame, Len(FullColumnGame)),
          BotSessionAfter(BotDrawGame, Len(BotDrawGame) - 1)}
    \cup {s \in RaceSessions : ~s.Player2.IsBot}

\* The columns the calls carry.
BotCallColumns == -1 .. COLS

BotCallInit ==
    /\ \E session \in BotCallSessions : games = [g \in {RaceGameID} |-> session]
    /\ botMoveTimers = {}
    /\ botTimers = {}
    /\ reconnectWindows = <<>>
    /\ waitingPlayers = <<>>
    /\ matchTimers = {}
    /\ forfeitTimers = {}
    /\ conns = [c \in ConnIDs |-> "open"]
    /\ leaderboard = <<>>
    /\ audit = <<>>
    /\ now = 0
    /\ fresh = [player |-> 2, game |-> 1, timer |-> 0]
    /\ reply = [op |-> "none"]
    /\ goroutines = <<>>
    /\ bd = CreateBoard
    /\ res = NoRes

\* bot executeMove: Manager.BotMakeMove(gameID, column).
BotCall(gameID, column) ==
    /\ reply' = [op |-> "botCall", gameID |-> gameID, column |-> column,
                 Success |-> BotMakeMove(games, gameID, column, now).Success]
    /\ \E result \in {BotMakeMove(games, gameID, column, now)} :
          /\ games' = result.Games
          /\ leaderboard' = IF result.Settled
                            THEN UpdateLeaderboard(leaderboard, result.Games[gameID])
                            ELSE leaderboard
          /\ audit' = IF result.Success /\ result.Games[gameID].Status = "finished"
                      THEN Audited(audit, gameID, "bot", result.Games[gameID], 0,
                                   IF result.Settled THEN 1 ELSE 0)
                      ELSE audit
    /\ UNCHANGED <<reconnectWindows, waitingPlayers, botTimers, matchTimers,
                   forfeitTimers, botMoveTimers, conns, now, fresh, bd, res,
                   goroutines>>

BotCallNext ==
    \E gameID \in GameIDInputs, column \in BotCallColumns : BotCall(gameID, column)

SpecBotCall == BotCallInit /\ [][BotCallNext]_vars

\* C28: Manager.BotMakeMove places a piece of the bot when the session
\* exists, is active, has CurrentPlayer = "bot" and the column is in range
\* and not full; in every other case it returns failure and leaves the
\* session (board, turn, status, move log) and everything else unchanged.
C28_BotMoveOnlyOnBotTurn ==
    [][ \A gameID \in GameIDInputs, column \in BotCallColumns :
          BotCall(gameID, column) =>
              IF /\ BotTurn(games, gameID)
                 /\ column \in Legal(games[gameID].Board)
              THEN /\ reply'.Success
                   /\ games'[gameID].Board = After(games[gameID].Board, column, "bot")
                   /\ games'[gameID].Moves =
                         Append(games[gameID].Moves,
                                [Player |-> "bot", Column |-> column,
                                 Row |-> LandingRow(games[gameID].Board, column)])
              ELSE /\ ~reply'.Success
                   /\ UNCHANGED <<games, leaderboard, audit>>
      ]_vars

\* BotMakeMove has failed on a drop into a full column made on the bot's
\* turn.
C28_Witness ==
    /\ reply.op = "botCall"
    /\ ~reply.Success
    /\ BotTurn(games, reply.gameID)
    /\ reply.column \in Cols
    /\ reply.column \notin Legal(games[reply.gameID].Board)


(***************************************************************************)
(* Claims about the bot's pacing timer (SpecBotSession).                   *)
(***************************************************************************)
\* C29: when the bot's pacing timer fires after its session has been
\* finished or forfeited (and deleted from Manager.games), its function does
\* nothing: no piece is placed, no session, window or timer changes, nothing
\* is saved or settled, and nothing is sent.
C29_StaleBotMoveAbsorbed ==
    [][ \A g \in botMoveTimers :
          /\ g \notin DOMAIN games \/ games[g].Status # "active"
          /\ BotMoveTimerFire(g)
          => /\ UNCHANGED <<games, reconnectWindows, forfeitTimers, leaderboard,
                            audit, waitingPlayers, conns>>
             /\ botMoveTimers' = botMoveTimers \ {g}
             /\ reply' = [op |-> "botMove"]
      ]_vars

\* The pacing timer armed by the human's move has fired after the forfeit
\* timer had finished and deleted the session.
C29_Witness ==
    /\ reply.op = "botMove"
    /\ RaceGameID \notin DOMAIN games
    /\ RaceGameID \in DOMAIN audit
    /\ audit[RaceGameID].by = "forfeit"
    /\ audit[RaceGameID].game.CurrentPlayer = "bot"
    /\ botMoveTimers = {}


(***************************************************************************)
(* SpecSettle: one session about to end, finished by a move, by the bot or *)
(* by a forfeit while the database may fail: each Exec of SaveGame and of  *)
(* UpdateLeaderboard either succeeds or returns an error.                  *)
(***************************************************************************)
\* What the database does with the INSERT of SaveGame and with the first
\* and the second upsert of UpdateLeaderboard: TRUE when the Exec succeeds.
DbOutcomes == [save : BOOLEAN, first : BOOLEAN, second : BOOLEAN]
DbUp == [save |-> TRUE, first |-> TRUE, second |-> TRUE]

\* Manager.UpdateLeaderboard under db: a failed Exec is logged and leaves
\* its row as it was.
UpdateLeaderboardDB(lb, game, db) ==
    IF game.Status # "finished" THEN lb
    ELSE LET w1 == IF game.Winner = game.Player1.ID THEN 1 ELSE 0
             l1 == IF game.Winner # game.Player1.ID /\ game.Winner # "draw" THEN 1 ELSE 0
             d1 == IF game.Winner # game.Player1.ID /\ game.Winner = "draw" THEN 1 ELSE 0
             lb1 == IF db.first THEN Upsert(lb, game.Player1.Username, w1, l1, d1) ELSE lb
             w2 == IF game.Winner = "bot" \/ game.Winner = game.Player2.ID THEN 1 ELSE 0
             l2 == IF w2 = 0 /\ game.Winner # "draw" /\ game.Winner # game.Player2.ID
                   THEN 1 ELSE 0
             d2 == IF w2 = 0 /\ l2 = 0 /\ game.Winner = "draw" THEN 1 ELSE 0
         IN IF game.Player2.IsBot THEN lb1
            ELSE IF db.second THEN Upsert(lb1, game.Player2.Username, w2, l2, d2)
            ELSE lb1

\* Manager.SaveGame under db: the call is counted; the games table is only
\* written, so a failed INSERT, which is logged, changes nothing else.
SaveGameDB(a, gameID, game, db) == SaveGame(a, gameID, game)

\* Server.handleMakeMove under db that undoes a finishing move when a write
\* of its settlement has failed.
HandleMakeMoveDB_RollsBack(conn, gameID, column, db) ==
    /\ conns[conn] = "open"
    /\ LET result == ManagerMakeMove(games, gameID, column, conn, now)
           game == result.Games[gameID]
           failed == result.Settled /\ db # DbUp
       IN /\ reply' = [op |-> "makeMove", conn |-> conn, gameID |-> gameID,
                       Success |-> result.Success, Message |-> result.Message]
          /\ games' = IF failed THEN games ELSE result.Games
          /\ leaderboard' = IF result.Settled
                            THEN UpdateLeaderboardDB(leaderboard, game, db)
                            ELSE leaderboard
          /\ IF ~result.Success
             THEN UNCHANGED <<audit, botMoveTimers>>
             ELSE /\ audit' = IF game.Status = "finished"
                              THEN SaveGameDB(Audited(audit, gameID, "move", game, 0,
                                                      IF result.Settled THEN 1 ELSE 0),
                                              gameID, game, db)
                              ELSE audit
                  /\ botMoveTimers' =
                        IF /\ game.Status # "finished"
                           /\ game.CurrentPlayer = "bot"
                           /\ game.Player2.IsBot
                        THEN botMoveTimers \cup {gameID}
                        ELSE botMoveTimers
    /\ UNCHANGED <<reconnectWindows, waitingPlayers, botTimers, matchTimers,
                   forfeitTimers, conns, now, fresh, bd, res, goroutines>>

\* Server.handleMakeMove under db.
HandleMakeMoveDB(conn, gameID, column, db) ==
    /\ conns[conn] = "open"
    /\ LET result == ManagerMakeMove(games, gameID, column, conn, now)
           game == result.Games[gameID]
       IN /\ reply' = [op |-> "makeMove", conn |-> conn, gameID |-> gameID,
                       Success |-> result.Success, Message |-> result.Message]
          /\ games' = result.Games
          /\ leaderboard' = IF result.Settled
                            THEN UpdateLeaderboardDB(leaderboard, game, db)
                            ELSE leaderboard
          /\ IF ~result.Success
             THEN UNCHANGED <<audit, botMoveTimers>>
             ELSE /\ audit' = IF game.Status = "finished"
                              THEN SaveGameDB(Audited(audit, gameID, "move", game, 0,
                                                      IF result.Settled THEN 1 ELSE 0),
                                              gameID, game, db)
                              ELSE audit
                  /\ botMoveTimers' =
                        IF /\ game.Status # "finished"
                           /\ game.CurrentPlayer = "bot"
                           /\ game.Player2.IsBot
                        THEN botMoveTimers \cup {gameID}
                        ELSE botMoveTimers
    /\ UNCHANGED <<reconnectWindows, waitingPlayers, botTimers, matchTimers,
                   forfeitTimers, conns, now, fresh, bd, res, goroutines>>

\* The callback of the bot's pacing timer under db.
BotMoveTimerFireDB(gameID, db) ==
    /\ gameID \in botMoveTimers
    /\ botMoveTimers' = botMoveTimers \ {gameID}
    /\ reply' = [op |-> "botMove"]
    /\ UNCHANGED <<reconnectWindows, waitingPlayers, botTimers, matchTimers,
                   forfeitTimers, conns, now, fresh, bd, res, goroutines>>
    /\ IF \/ gameID \notin DOMAIN games
          \/ games[gameID].Status # "active"
          \/ games[gameID].CurrentPlayer # "bot"
          \/ Len(GetValidMoves(games[gameID].Board)) = 0
       THEN UNCHANGED <<games, leaderboard, audit>>
       ELSE \E column \in {BotColumn(games[gameID].Board, games[gameID].Player1.ID)} :
            \E result \in {BotMakeMove(games, gameID, column, now)} :
               /\ games' = result.Games
               /\ leaderboard' = IF result.Settled
                                 THEN UpdateLeaderboardDB(leaderboard,
                                                          result.Games[gameID], db)
                                 ELSE leaderboard
               /\ audit' = IF result.Success /\ result.Games[gameID].Status = "finished"
                           THEN Audited(audit, gameID, "bot", result.Games[gameID], 0,
                                        IF result.Settled THEN 1 ELSE 0)
                           ELSE audit

\* The callback of the forfeit timer under db.
ForfeitTimerFireDB(timer, db) ==
    /\ timer \in forfeitTimers
    /\ now >= timer.due
    /\ forfeitTimers' = forfeitTimers \ {timer}
    /\ reply' = [op |-> "forfeitTimer"]
    /\ UNCHANGED <<waitingPlayers, botTimers, matchTimers, botMoveTimers, conns,
                   now, fresh, bd, res, goroutines>>
    /\ LET f == ForfeitGame(games, timer.gameID, timer.playerID, now)
       IN IF timer.gameID \in DOMAIN reconnectWindows /\ f.Forfeited
          THEN /\ games' = Delete(games, timer.gameID)
               /\ reconnectWindows' = Delete(reconnectWindows, timer.gameID)
               /\ leaderboard' = UpdateLeaderboardDB(leaderboard, f.Game, db)
               /\ audit' = SaveGameDB(Audited(audit, timer.gameID, "forfeit", f.Game,
                                              0, 1),
                                      timer.gameID, f.Game, db)
          ELSE UNCHANGED <<games, reconnectWindows, leaderboard, audit>>

NextSettle ==
    \/ /\ Cardinality({c \in ConnIDs : conns[c] = "closed"}) < MaxClosed
       /\ \E conn \in ConnIDs : Disconnect(conn)
    \/ \E timer \in forfeitTimers, db \in DbOutcomes : ForfeitTimerFireDB(timer, db)
    \/ \E conn \in ConnIDs, column \in ColumnInputs(RaceGameID), db \in DbOutcomes :
          HandleMakeMoveDB(conn, RaceGameID, column, db)
    \/ \E gameID \in botMoveTimers, db \in DbOutcomes : BotMoveTimerFireDB(gameID, db)
    \/ TimePending /\ Tick

SpecSettle == ReconnectInit /\ [][NextSettle]_vars


\* The number of calls of UpdateLeaderboard made so far on session g.
Settles(a, g) == IF g \in DOMAIN a THEN a[g].settles ELSE 0

\* C26: whatever the database does with the writes of SaveGame and
\* UpdateLeaderboard, a step that settles a session leaves it finished with
\* its winner in memory (also in the session object a forfeit hands on), and
\* a finished session stays finished with the same winner: it is never
\* active again.
C26_FailedWriteKeepsOutcome ==
    [][ \A g \in {RaceGameID} :
          /\ Settles(audit', g) > Settles(audit, g) =>
                /\ audit'[g].game.Status = "finished"
                /\ audit'[g].game.Winner \in
                      {audit'[g].game.Player1.ID, audit'[g].game.Player2.ID, "draw"}
                /\ g \in DOMAIN games => games[g].Status = "active"
                /\ g \in DOMAIN games' => games'[g] = audit'[g].game
          /\ g \in DOMAIN games /\ games[g].Status = "finished" =>
                /\ g \in DOMAIN games' => /\ games'[g].Status = "finished"
                                          /\ games'[g].Winner = games[g].Winner
                                          /\ games'[g].Board = games[g].Board
                /\ reply'.op = "makeMove" =>
                      ~reply'.Success /\ reply'.Message = "Game is not active"
      ]_vars

\* A move has won the session while every write of its settlement failed:
\* the leaderboard has no row, the session is finished with its winner, and
\* a later move request has been refused.
C26_Witness ==
    /\ RaceGameID \in DOMAIN games
    /\ games[RaceGameID].Status = "finished"
    /\ games[RaceGameID].Winner = games[RaceGameID].Player1.ID
    /\ Settles(audit, RaceGameID) = 1
    /\ leaderboard = <<>>
    /\ reply.op = "makeMove"
    /\ reply.Message = "Game is not active"


(***************************************************************************)
(* Claims about disconnecting and the reconnect window (SpecReconnect).    *)
(***************************************************************************)
\* The human participant of `game` that is bound to conn, "" when there is
\* none: player 1 first, then a player 2 that is not the bot.
BoundHuman(game, conn) ==
    IF game.Player1.Conn = conn THEN game.Player1.ID
    ELSE IF game.Player2.Conn = conn /\ ~game.Player2.IsBot THEN game.Player2.ID
    ELSE ""

\* The forfeit timers armed for session g.
TimersOf(timers, g) == {timer \in timers : timer.gameID = g}

\* C31: when a connection closes, Manager.HandleDisconnect changes no
\* session; for every session that is active and has a human participant
\* bound to the connection it stores the window of that participant,
\* expiring ReconnectSecs from now, and arms one forfeit timer for that
\* participant, due at the same time; for every other session (finished,
\* not involving the connection, or with only the bot left to match) the
\* window and the forfeit timers are as before; no window is stored for a
\* session that is not in Manager.games.
C31_DisconnectOpensWindowOnlyWhenBound ==
    [][\A conn \in ConnIDs :
          Disconnect(conn) =>
             /\ games' = games
             /\ DOMAIN reconnectWindows' \subseteq DOMAIN reconnectWindows \cup DOMAIN games
             /\ forfeitTimers \subseteq forfeitTimers'
             /\ \A g \in DOMAIN games :
                   IF games[g].Status = "active" /\ BoundHuman(games[g], conn) # ""
                   THEN /\ g \in DOMAIN reconnectWindows'
                        /\ reconnectWindows'[g] =
                              [PlayerID |-> BoundHuman(games[g], conn),
                               ExpiresAt |-> now + ReconnectSecs]
                        /\ \E timer \in forfeitTimers' \ forfeitTimers :
                              /\ TimersOf(forfeitTimers', g) =
                                    TimersOf(forfeitTimers, g) \cup {timer}
                              /\ timer.playerID = BoundHuman(games[g], conn)
                              /\ timer.due = now + ReconnectSecs
                   ELSE /\ g \in DOMAIN reconnectWindows' <=> g \in DOMAIN reconnectWindows
                        /\ g \in DOMAIN reconnectWindows =>
                              reconnectWindows'[g] = reconnectWindows[g]
                        /\ TimersOf(forfeitTimers', g) = TimersOf(forfeitTimers, g)
             /\ \A g \in DOMAIN reconnectWindows \ DOMAIN games :
                   reconnectWindows'[g] = reconnectWindows[g]]_vars

\* C31: the connection of player 1 of a finished session has just closed,
\* the only one that has, and no window and no forfeit timer exists.
C31_Witness ==
    /\ reply.op = "disconnect"
    /\ reconnectWindows = <<>>
    /\ forfeitTimers = {}
    /\ \E g \in DOMAIN games :
          /\ games[g].Status = "finished"
          /\ {c \in ConnIDs : conns[c] = "closed"} = {games[g].Player1.Conn}


(***************************************************************************)
(* SpecReconnectFair: SpecReconnect with connections closing only while    *)
(* the clock can still reach the expiry of the window they open, every     *)
(* armed forfeit timer eventually firing (time.AfterFunc runs its function *)
(* once the duration has passed) and time passing.  Clients are not        *)
(* obliged to move or to rejoin.                                           *)
(***************************************************************************)
NextReconnectFair ==
    \/ /\ Cardinality({c \in ConnIDs : conns[c] = "closed"}) < MaxDisconnects
       /\ now + ReconnectSecs <= MaxClock
       /\ \E conn \in ConnIDs : Disconnect(conn)
    \/ \E conn \in ConnIDs, username \in Usernames \cup {Outsider} :
          HandleRejoin(conn, username, RaceGameID)
    \/ \E timer \in forfeitTimers : ForfeitTimerFire(timer)
    \/ \E conn \in ConnIDs, column \in ColumnInputs(RaceGameID) :
          HandleMakeMove(conn, RaceGameID, column)
    \/ \E gameID \in botMoveTimers : BotMoveTimerFire(gameID)
    \/ TimePending /\ Tick

SpecReconnectFair ==
    /\ ReconnectInit
    /\ [][NextReconnectFair]_vars
    /\ WF_vars(\E timer \in forfeitTimers : ForfeitTimerFire(timer))
    /\ WF_vars(TimePending /\ Tick)

\* The human participant with this ID is in an active session and the
\* connection it is bound to has closed.  (A connection that has closed
\* stays closed: a participant comes back on another one.)
Absent(id) ==
    \E g \in DOMAIN games :
       /\ games[g].Status = "active"
       /\ \E player \in {games[g].Player1, games[g].Player2} :
             /\ player.ID = id
             /\ ~player.IsBot
             /\ conns[player.Conn] = "closed"

\* C32: no participant stays absent from an active session forever: when
\* its connection has closed and it does not come back, the session is
\* eventually finished.
C32_AbsentIsForfeited ==
    \A id \in {PlayerIDSeq[1], PlayerIDSeq[2]} : []<>(~Absent(id))

\* C32: a participant is absent from an active session, no window is open
\* and no forfeit timer is armed.
C32_Witness ==
    /\ \E id \in {PlayerIDSeq[1], PlayerIDSeq[2]} : Absent(id)
    /\ reconnectWindows = <<>>
    /\ forfeitTimers = {}


\* C33: a session is forfeited (Manager.ForfeitGame finishes it and takes
\* it out of Manager.games) only while a window of that session exists
\* and only once the window's expiry, ReconnectSecs after the disconnect
\* that opened it, has been reached.
C33_ForfeitOnlyAfterFullWindow ==
    [][\A g \in DOMAIN games :
          g \notin DOMAIN games' =>
             /\ g \in DOMAIN reconnectWindows
             /\ now >= reconnectWindows[g].ExpiresAt]_vars

\* C33: a forfeit timer has just forfeited a session at the expiry of the
\* window that the only disconnect opened.
C33_Witness ==
    /\ reply.op = "forfeitTimer"
    /\ now = ReconnectSecs
    /\ Cardinality({c \in ConnIDs : conns[c] = "closed"}) = 1
    /\ \E g \in DOMAIN audit :
          /\ audit[g].by = "forfeit"
          /\ audit[g].game.EndedAt = now


\* The participant of the finished session `game` that is not its winner.
Loser(game) == IF game.Winner = game.Player1.ID THEN game.Player2 ELSE game.Player1

\* C34: whenever a session is forfeited, the participant that loses is the
\* one the session's window names at that moment, and the connection that
\* participant is bound to has closed.
C34_ForfeitLoserIsAbsent ==
    [][\A g \in DOMAIN games :
          g \notin DOMAIN games' =>
             /\ g \in DOMAIN reconnectWindows
             /\ reconnectWindows[g].PlayerID = Loser(audit'[g].game).ID
             /\ ~Loser(audit'[g].game).IsBot
             /\ conns[Loser(audit'[g].game).Conn] = "closed"]_vars

\* C34: a session of two humans has just been forfeited by player 1, whose
\* connection has closed, while player 2's is open.
C34_Witness ==
    /\ reply.op = "forfeitTimer"
    /\ \E g \in DOMAIN audit :
          /\ audit[g].by = "forfeit"
          /\ ~audit[g].game.Player2.IsBot
          /\ audit[g].game.Winner = audit[g].game.Player2.ID
          /\ conns[audit[g].game.Player1.Conn] = "closed"
          /\ conns[audit[g].game.Player2.Conn] = "open"


\* C35: a rejoin that clears the window of a session without forfeiting it
\* is a successful one, binds the participant the window names to the
\* connection the rejoin came on, and changes nothing else of the session
\* (the other participant's connection included).
C35_RejoinRebindsWindowOwner ==
    [][\A conn \in ConnIDs, username \in RejoinNames, g \in DOMAIN games :
          /\ HandleRejoin(conn, username, g)
          /\ g \in DOMAIN reconnectWindows
          /\ g \in DOMAIN games'
          /\ (reply'.Success \/ g \notin DOMAIN reconnectWindows')
          /\ now <= reconnectWindows[g].ExpiresAt
          => /\ reply'.Success
             /\ g \notin DOMAIN reconnectWindows'
             /\ games'[g] =
                   IF games[g].Player1.ID = reconnectWindows[g].PlayerID
                   THEN [games[g] EXCEPT !.Player1.Conn = conn]
                   ELSE [games[g] EXCEPT !.Player2.Conn = conn]]_vars

\* C35: alice, whose connection has closed, has just rejoined on the third
\* connection, and bob is bound to his connection as before.
C35_Witness ==
    /\ reply.op = "rejoin"
    /\ reply.Success
    /\ reconnectWindows = <<>>
    /\ {c \in ConnIDs : conns[c] = "closed"} = {"c1"}
    /\ \E g \in DOMAIN games :
          /\ games[g].Player1.Conn = "c3"
          /\ games[g].Player2.Conn = "c2"


(***************************************************************************)
(* SpecJoin: the matchmaking queue when every open connection may send a   *)
(* join at any time, under any username, also while it waits: the read     *)
(* loop of Server.handleWebSocket passes every join to handleJoin.         *)
(***************************************************************************)
NextJoin ==
    \/ \E conn \in ConnIDs, username \in Usernames : HandleJoin(conn, username)
    \/ \E player \in matchTimers : MatchTimerFire(player)
    \/ \E conn \in ConnIDs : Disconnect(conn)

SpecJoin == Init /\ [][NextJoin]_vars

\* C36: every session that is created has its two participants bound to
\* different connections.
C36_NeverPairedWithItself ==
    [][\A g \in DOMAIN games' \ DOMAIN games :
          games'[g].Player1.Conn # games'[g].Player2.Conn]_vars

\* C36: a join on the second connection has just been paired with the
\* participant waiting on the first.
C36_Witness ==
    /\ reply.op = "join"
    /\ waitingPlayers = <<>>
    /\ \E g \in DOMAIN games :
          /\ games[g].Player1.Conn = "c1"
          /\ games[g].Player2.Conn = "c2"


(***************************************************************************)
(* Claims about the sessions joins create and their state (SpecPlay).      *)
(***************************************************************************)
\* The place of a player ID in the order the IDs are issued.
Arrival(id) == CHOOSE i \in 1 .. Len(PlayerIDSeq) : PlayerIDSeq[i] = id

\* C37: a join that finds a participant waiting creates one session with
\* the participant that waited as player 1 and the arrival as player 2,
\* active, with an empty board, no moves and player 1 to move; in every
\* session of two humans player 1 is the one that arrived first, and the
\* first move is player 1's.
C37_EarlierArrivalMovesFirst ==
    /\ [](\A g \in DOMAIN games :
             ~games[g].Player2.IsBot =>
                /\ Arrival(games[g].Player1.ID) < Arrival(games[g].Player2.ID)
                /\ games[g].Moves = <<>> =>
                      games[g].CurrentPlayer = games[g].Player1.ID
                /\ games[g].Moves # <<>> =>
                      games[g].Moves[1].Player = games[g].Player1.ID)
    /\ [][\A conn \in ConnIDs, username \in Usernames :
             HandleJoin(conn, username) /\ Len(waitingPlayers) > 0 =>
                \E g \in DOMAIN games' \ DOMAIN games :
                   /\ DOMAIN games' = DOMAIN games \cup {g}
                   /\ games'[g].Player1 = Head(waitingPlayers)
                   /\ games'[g].Player2 =
                         NewPlayer(PlayerIDSeq[fresh.player + 1], username, conn, FALSE)
                   /\ games'[g].Status = "active"
                   /\ games'[g].Board = CreateBoard
                   /\ games'[g].Moves = <<>>
                   /\ games'[g].Winner = ""
                   /\ games'[g].CurrentPlayer = Head(waitingPlayers).ID]_vars

\* C37: in a session of two humans the participant that waited has made
\* the first move and the arrival is to move.
C37_Witness ==
    \E g \in DOMAIN games :
       /\ ~games[g].Player2.IsBot
       /\ Len(games[g].Moves) = 1
       /\ games[g].Moves[1].Player = PlayerIDSeq[1]
       /\ games[g].CurrentPlayer = PlayerIDSeq[2]


\* The cells of `board` that hold the piece `token`.
CellsOf(board, token) == {cell \in Rows \X Cols : board[cell[1]][cell[2]] = token}

\* C38: in every session the move log and the board agree: there are as
\* many logged moves as occupied cells, the logged moves name different
\* cells, the cell of each logged move holds the piece of the move's
\* player, and player 1 has as many pieces as the other side or one more.
C38_LogMatchesBoard ==
    \A g \in DOMAIN games :
       LET game == games[g]
           other == IF game.Player2.IsBot THEN "bot" ELSE game.Player2.ID
       IN /\ Len(game.Moves) = PieceCount(game.Board)
          /\ \A i, j \in 1 .. Len(game.Moves) :
                /\ game.Moves[i].Row \in Rows
                /\ game.Moves[i].Column \in Cols
                /\ game.Board[game.Moves[i].Row][game.Moves[i].Column] =
                      game.Moves[i].Player
                /\ i # j => <<game.Moves[i].Row, game.Moves[i].Column>> #
                            <<game.Moves[j].Row, game.Moves[j].Column>>
          /\ Cardinality(CellsOf(game.Board, game.Player1.ID))
                - Cardinality(CellsOf(game.Board, other)) \in {0, 1}

\* C38: a drop into a full column has just been refused in a session with
\* six moves in its log.
C38_Witness ==
    /\ reply.op = "makeMove"
    /\ ~reply.Success
    /\ reply.Message = "Column is full"
    /\ \E g \in DOMAIN games : Len(games[g].Moves) = ROWS


\* Status, Winner and EndedAt of a session agree.
Settled(game) ==
    /\ game.Status \in {"active", "finished"}
    /\ game.Status = "active" <=> (game.Winner = "" /\ game.EndedAt = NoTime)
    /\ game.Status = "finished" <=>
          /\ game.Winner \in {game.Player1.ID,
                              IF game.Player2.IsBot THEN "bot" ELSE game.Player2.ID,
                              "draw"}
          /\ game.EndedAt # NoTime

\* C39: every session of Manager.games, and every finished session as it
\* was last saved or settled (the forfeited ones, which have left
\* Manager.games, among them), is active with no winner and no EndedAt, or
\* finished with a participant or "draw" as winner and EndedAt set.
C39_StatusWinnerEndedAtAgree ==
    /\ \A g \in DOMAIN games : Settled(games[g])
    /\ \A g \in DOMAIN audit :
          audit[g].game.Status = "finished" /\ Settled(audit[g].game)

\* C39: player 2 of a session of two humans has forfeited: the session is
\* finished with player 1 as winner.
C39_Witness ==
    \E g \in DOMAIN audit :
       /\ audit[g].by = "forfeit"
       /\ g \notin DOMAIN games
       /\ ~audit[g].game.Player2.IsBot
       /\ audit[g].game.Winner = audit[g].game.Player1.ID
       /\ audit[g].game.EndedAt # NoTime

=============================================================================
